---- MODULE Spec2Model ----
(***************************************************************************)
(* staticmap-osm-generator: the tile memory cache (core/tileCache.ts), the *)
(* rate-limited tile fetcher (core/tileFetcher.ts), the /map handler with  *)
(* its disk cache (server/index.ts), generateHash (core/hash.ts) and the   *)
(* tile coordinates of a composition (core/tile.ts).                       *)
(*                                                                         *)
(* Time is counted in ticks of 500 ms (Date.now() / 500).                  *)
(***************************************************************************)
EXTENDS Integers, Sequences, FiniteSets, TLC

(***************************************************************************)
(* Bounds of the model                                                     *)
(***************************************************************************)
NumCoords == 3      \* distinct tile coordinates requested
NumBuffers == 2     \* distinct tile bodies
MaxCap == 2         \* largest configured cache.maxSize
Ttl == 1            \* cache ttl in ticks (ttlMinutes * 60 * 1000 ms)
MaxOps == 4         \* TileCache calls recorded since the cache was last empty
NumCallers == 3     \* concurrent fetchTile calls
NumFetchCoords == 2 \* distinct tile coordinates the concurrent calls ask for
MaxFailures == 1    \* failed upstream attempts over all concurrent calls
NumWaiters == 2      \* calls beyond maxConcurrent that the rate limiter is given
NumRequests == 2    \* /map requests
NumScales == 2      \* output scales requested: 1..NumScales
MaxTileZoom == 2    \* largest zoom of the tile index computation
MantissaBits == 10  \* significant bits of a Number (53 in the program)
MaxCornerTile == 1   \* largest tile index of the canvas corner

(***************************************************************************)
(* Program constants                                                       *)
(***************************************************************************)
maxConcurrent == 2  \* RateLimiter.maxConcurrent (OSM_MAX_CONCURRENT unset)
minDelay == 1       \* RateLimiter.minDelay: 1000 / requestsPerSecond = 500 ms
maxRetries == 3     \* fetchWithRetry's maxRetries
baseDelay == 2      \* fetchWithRetry's baseDelay: 1000 ms
NumTiles == 4       \* generateSingleTileMap's loop: rows 0..1 by columns 0..1
tileSize == 256     \* CONFIG.tileSize

Zoom == 2

\* ticks the clock may advance in the cache specification: one past the ttl
MaxTime == Ttl + 1

\* last tick of the clock with concurrent calls: time for a spacing wait and
\* for the first backoff
MaxClock == minDelay + baseDelay

Null == 0
NoError == "null"   \* lastError before any attempt has failed
Buffers == 1..NumBuffers
Coords == {<<Zoom, x, 0>> : x \in 0..(NumCoords - 1)}
FetchCoords == {<<Zoom, x, 0>> : x \in 0..(NumFetchCoords - 1)}

Callers == 1..NumCallers

Requests == 1..NumRequests

Scales == 1..NumScales

\* what one upstream attempt ends in: a 2xx response, a 4xx or 5xx response,
\* the 10 s abort, or a rejected fetch
Statuses == {"ok", "4xx", "5xx", "timeout", "neterr"}

VARIABLES
    cache,           \* TileCache.cache: the Map's entries in insertion order
    maxSize,         \* TileCache.maxSize
    now,             \* Date.now(), in ticks
    hist,            \* TileCache calls made since the cache was last cleared
    call,            \* the latest TileCache call, its arguments and its result
    activeRequests,  \* RateLimiter.activeRequests
    queue,           \* RateLimiter.queue: the callers whose resolve is queued
    lastRequestTime, \* RateLimiter.lastRequestTime
    pc,              \* where each fetchTile call is suspended
    coord,           \* the (zoom, x, y) each call asks for
    attempt,         \* fetchWithRetry's loop variable
    lastError,       \* fetchWithRetry's lastError
    wake,            \* when the call's pending setTimeout is due
    result,          \* what fetchTile returned or threw
    outcomes,        \* per call, the status and body each upstream attempt ended in
    slept,           \* per call, the backoff delays slept
    dispatched,      \* the times at which waitForSlot let the last two requests through
    disk,            \* the files of CONFIG.cacheDir: digest |-> stored image
    rpc,             \* where each /map request is suspended
    rparams,         \* the validated parameters of each /map request
    rhash,           \* handleMapRequest's hash
    rtiles,          \* per request, how each tile fetch settled, in order of settling
    rlog,            \* per request, what the handler did to the disk cache, in order
    response,        \* the Response each request was answered with
    hashArgs,        \* argument tuples generateHash is applied to
    hashOut,         \* per argument tuple, the digest core/hash.ts returns
    hashOutScale,    \* per argument tuple, the digest the scale-aware generateHash returns
    tileArgs,        \* zoom, tileX0, tileY0 of one composition
    tileFetches,     \* the coordinates the composition's loop passed to fetchTile
    tileSettled,     \* the tile fetches of the composition that settled, in order of settling
    canvas,          \* what was drawn on the canvas, in order of drawing
    markerArgs,      \* markerName, anchorName and the marker asset of one composition
    markerPc,        \* where the marker part of generateSingleTileMap is
    markerImageCache, \* the marker images loaded so far
    query,           \* the lat, lon and zoom parameters of a request's URL
    verdict          \* what the fetch handler's validation made of them

cvars == <<cache, maxSize, now, hist, call>>

lvars == <<activeRequests, queue, lastRequestTime, dispatched>>

pvars == <<pc, coord, attempt, lastError, wake, result, outcomes, slept>>

svars == <<disk, rpc, rparams, rhash, rtiles, rlog, response>>

hvars == <<hashArgs, hashOut, hashOutScale>>

tvars == <<tileArgs, tileFetches, tileSettled, canvas, markerArgs, markerPc, markerImageCache>>

qvars == <<query, verdict>>

vars == <<cache, maxSize, now, hist, call, activeRequests, queue, lastRequestTime,
          pc, coord, attempt, lastError, wake, result, outcomes, slept,
          dispatched, disk, rpc, rparams, rhash, rtiles, rlog, response,
          hashArgs, hashOut, hashOutScale, tileArgs, tileFetches, tileSettled,
          canvas, markerArgs, markerPc, markerImageCache, query, verdict>>

(***************************************************************************)
(* JavaScript Map, as the sequence of its entries in insertion order       *)
(***************************************************************************)
MapKeys(m) == {m[i].key : i \in 1..Len(m)}

MapHas(m, k) == k \in MapKeys(m)

MapGet(m, k) == LET i == CHOOSE i \in 1..Len(m) : m[i].key = k IN m[i]

MapDelete(m, k) == SelectSeq(m, LAMBDA e : e.key # k)

\* Map.set keeps the position of a key that is present and appends a new one
MapSet(m, k, buffer, timestamp) ==
    LET e == [key |-> k, buffer |-> buffer, timestamp |-> timestamp]
    IN  IF MapHas(m, k)
        THEN [i \in 1..Len(m) |-> IF m[i].key = k THEN e ELSE m[i]]
        ELSE Append(m, e)

\* this.cache.keys().next().value: undefined (no key) for an empty Map
FirstKey(m) == IF Len(m) > 0 THEN <<m[1].key>> ELSE <<>>

(***************************************************************************)
(* TileCache                                                               *)
(***************************************************************************)
getCacheKey(zoom, x, y) == <<zoom, "/", x, "/", y>>

\* TileCache.get, emptying the Map when it finds an expired entry
TileCacheGet_ClearOnExpiry(c, key, t, ttl) ==
    IF ~MapHas(c, key)
    THEN [cache |-> c, ret |-> Null]
    ELSE IF t - MapGet(c, key).timestamp > ttl
         THEN [cache |-> <<>>, ret |-> Null]
         ELSE [cache |-> c, ret |-> MapGet(c, key).buffer]

\* TileCache.get, expiring an entry already when its age reaches the ttl
TileCacheGet_ExpireAtTtl(c, key, t, ttl) ==
    IF ~MapHas(c, key)
    THEN [cache |-> c, ret |-> Null]
    ELSE IF t - MapGet(c, key).timestamp >= ttl
         THEN [cache |-> MapDelete(c, key), ret |-> Null]
         ELSE [cache |-> c, ret |-> MapGet(c, key).buffer]

\* TileCache.get: the Map after the call and the value returned
TileCacheGet(c, key, t, ttl) ==
    IF ~MapHas(c, key)
    THEN [cache |-> c, ret |-> Null]
    ELSE IF t - MapGet(c, key).timestamp > ttl
         THEN [cache |-> MapDelete(c, key), ret |-> Null]
         ELSE [cache |-> c, ret |-> MapGet(c, key).buffer]

\* TileCache.set, evicting the newest entry instead of the oldest
TileCacheSet_EvictLast(c, key, buffer, t, cap) ==
    LET evicted == IF Len(c) >= cap /\ ~MapHas(c, key) /\ Len(c) > 0
                   THEN SubSeq(c, 1, Len(c) - 1)
                   ELSE c
        removed == IF MapHas(evicted, key) THEN MapDelete(evicted, key) ELSE evicted
    IN  MapSet(removed, key, buffer, t)

\* TileCache.set, evicting also when the key is already stored
TileCacheSet_EvictAlways(c, key, buffer, t, cap) ==
    LET evicted == IF Len(c) >= cap /\ FirstKey(c) # <<>>
                   THEN MapDelete(c, FirstKey(c)[1])
                   ELSE c
        removed == IF MapHas(evicted, key) THEN MapDelete(evicted, key) ELSE evicted
    IN  MapSet(removed, key, buffer, t)

\* TileCache.set, leaving a key that is already stored as it is
TileCacheSet_KeepExisting(c, key, buffer, t, cap) ==
    LET evicted == IF Len(c) >= cap /\ ~MapHas(c, key) /\ FirstKey(c) # <<>>
                   THEN MapDelete(c, FirstKey(c)[1])
                   ELSE c
    IN  IF MapHas(c, key) THEN c ELSE MapSet(evicted, key, buffer, t)

\* TileCache.set, overwriting a present key where it stands in the Map
TileCacheSet_InPlace(c, key, buffer, t, cap) ==
    LET evicted == IF Len(c) >= cap /\ ~MapHas(c, key) /\ FirstKey(c) # <<>>
                   THEN MapDelete(c, FirstKey(c)[1])
                   ELSE c
    IN  MapSet(evicted, key, buffer, t)

\* TileCache.set: the Map after the call
TileCacheSet(c, key, buffer, t, cap) ==
    LET evicted == IF Len(c) >= cap /\ ~MapHas(c, key) /\ FirstKey(c) # <<>>
                   THEN MapDelete(c, FirstKey(c)[1])
                   ELSE c
        removed == IF MapHas(evicted, key) THEN MapDelete(evicted, key) ELSE evicted
    IN  MapSet(removed, key, buffer, t)

TileCacheClear(c) == <<>>

\* getStats().size
Size(c) == Len(c)

(***************************************************************************)
(* generateHash                                                            *)
(*                                                                         *)
(* A string is the sequence of its characters. Numbers are integers: the   *)
(* decimal digits of a fractional latitude play no part in what follows.   *)
(***************************************************************************)
\* an optional string argument: undefined, or a string
Undefined == [defined |-> FALSE, chars |-> <<>>]

Str(s) == [defined |-> TRUE, chars |-> s]

\* markerName || "": undefined and the empty string both give ""
OrEmpty(v) == IF v.defined /\ v.chars # <<>> THEN v.chars ELSE <<>>

DigitChars == <<"0", "1", "2", "3", "4", "5", "6", "7", "8", "9">>

RECURSIVE NatToString(_)
NatToString(n) ==
    IF n < 10
    THEN <<DigitChars[n + 1]>>
    ELSE Append(NatToString(n \div 10), DigitChars[(n % 10) + 1])

\* `${n}` in a template literal
NumberToString(n) == IF n < 0 THEN <<"-">> \o NatToString(-n) ELSE NatToString(n)

\* core/hash.ts, the string hashed: `${zoom}${lat}${lon}${marker}|${anchor}`
HashInput(zoom, lat, lon, markerName, anchorName) ==
    NumberToString(zoom) \o NumberToString(lat) \o NumberToString(lon)
        \o OrEmpty(markerName) \o <<"|">> \o OrEmpty(anchorName)

\* the scale-aware generateHash, the string hashed:
\* `${zoom}|${lat}|${lon}|${marker}|${anchor}|s${scale}`
HashInputScale(zoom, lat, lon, markerName, anchorName, scale) ==
    NumberToString(zoom) \o <<"|">> \o NumberToString(lat) \o <<"|">>
        \o NumberToString(lon) \o <<"|">> \o OrEmpty(markerName) \o <<"|">>
        \o OrEmpty(anchorName) \o <<"|", "s">> \o NumberToString(scale)

\* the SHA-256 digest of a string, in hex: equal strings give equal digests,
\* and no two strings met here are taken to collide
sha256hex(input) == <<"sha256", input>>

\* core/hash.ts
generateHash(zoom, lat, lon, markerName, anchorName) ==
    sha256hex(HashInput(zoom, lat, lon, markerName, anchorName))

\* the scale-aware generateHash
generateHashScale(zoom, lat, lon, markerName, anchorName, scale) ==
    sha256hex(HashInputScale(zoom, lat, lon, markerName, anchorName, scale))

(***************************************************************************)
(* The disk cache: the files of CONFIG.cacheDir, one per digest            *)
(***************************************************************************)
\* file.exists(), never true
DiskHas_Never(d, h) == FALSE

\* file.exists()
DiskHas(d, h) == \E f \in d : f.hash = h

\* the content of the file, if there is one
DiskRead(d, h) == {f.image : f \in {g \in d : g.hash = h}}

\* Bun.write, storing nothing
DiskWrite_Nothing(d, h, image) == d

\* Bun.write, keeping what the path held next to the new content
DiskWrite_KeepOld(d, h, image) == d \cup {[hash |-> h, image |-> image]}

\* Bun.write(filePath, webpBuffer): the file is created or replaced
DiskWrite(d, h, image) == {f \in d : f.hash # h} \cup {[hash |-> h, image |-> image]}

(***************************************************************************)
(* The state of the parts a specification does not exercise                *)
(***************************************************************************)
FetcherIdle ==
    /\ cache = <<>>
    /\ maxSize = MaxCap
    /\ now = 0
    /\ hist = <<>>
    /\ call = [op |-> "new", key |-> <<>>, buffer |-> Null, ret |-> Null]
    /\ activeRequests = 0
    /\ queue = <<>>
    /\ lastRequestTime = 0
    /\ dispatched = <<>>
    /\ pc = [p \in Callers |-> "idle"]
    /\ coord = [p \in Callers |-> <<>>]
    /\ attempt = [p \in Callers |-> 0]
    /\ lastError = [p \in Callers |-> NoError]
    /\ wake = [p \in Callers |-> 0]
    /\ result = [p \in Callers |-> <<>>]
    /\ outcomes = [p \in Callers |-> <<>>]
    /\ slept = [p \in Callers |-> <<>>]

ServerIdle ==
    /\ disk = {}
    /\ rpc = [r \in Requests |-> "idle"]
    /\ rparams = [r \in Requests |-> <<>>]
    /\ rhash = [r \in Requests |-> <<>>]
    /\ rtiles = [r \in Requests |-> <<>>]
    /\ rlog = [r \in Requests |-> <<>>]
    /\ response = [r \in Requests |-> <<>>]

HashIdle ==
    /\ hashArgs = <<>>
    /\ hashOut = <<>>
    /\ hashOutScale = <<>>

TilesIdle ==
    /\ tileArgs = <<>>
    /\ tileFetches = <<>>
    /\ tileSettled = <<>>
    /\ canvas = <<>>
    /\ markerArgs = <<>>
    /\ markerPc = "idle"
    /\ markerImageCache = {}

QueryIdle ==
    /\ query = <<>>
    /\ verdict = <<>>

(***************************************************************************)
(* The cache driven directly: any sequence of get, set and clear           *)
(***************************************************************************)
CacheInit ==
    /\ cache = <<>>
    /\ maxSize \in 0..MaxCap
    /\ now = 0
    /\ hist = <<>>
    /\ call = [op |-> "new", key |-> <<>>, buffer |-> Null, ret |-> Null]
    /\ activeRequests = 0
    /\ queue = <<>>
    /\ lastRequestTime = 0
    /\ dispatched = <<>>
    /\ pc = [p \in Callers |-> "idle"]
    /\ coord = [p \in Callers |-> <<>>]
    /\ attempt = [p \in Callers |-> 0]
    /\ lastError = [p \in Callers |-> NoError]
    /\ wake = [p \in Callers |-> 0]
    /\ result = [p \in Callers |-> <<>>]
    /\ outcomes = [p \in Callers |-> <<>>]
    /\ slept = [p \in Callers |-> <<>>]
    /\ ServerIdle /\ HashIdle /\ TilesIdle /\ QueryIdle

Get(zoom, x, y) ==
    LET key == getCacheKey(zoom, x, y)
        r == TileCacheGet(cache, key, now, Ttl)
    IN  /\ Len(hist) < MaxOps
        /\ cache' = r.cache
        /\ hist' = Append(hist, [op |-> "get", key |-> key])
        /\ call' = [op |-> "get", key |-> key, buffer |-> Null, ret |-> r.ret]
        /\ UNCHANGED <<maxSize, now, lvars, pvars>>
        /\ UNCHANGED <<svars, hvars, tvars, qvars>>

Set(zoom, x, y, buffer) ==
    LET key == getCacheKey(zoom, x, y)
    IN  /\ Len(hist) < MaxOps
        /\ cache' = TileCacheSet(cache, key, buffer, now, maxSize)
        /\ hist' = Append(hist, [op |-> "set", key |-> key])
        /\ call' = [op |-> "set", key |-> key, buffer |-> buffer, ret |-> Null]
        /\ UNCHANGED <<maxSize, now, lvars, pvars>>
        /\ UNCHANGED <<svars, hvars, tvars, qvars>>

Clear ==
    /\ cache' = TileCacheClear(cache)
    /\ hist' = <<>>
    /\ call' = [op |-> "clear", key |-> <<>>, buffer |-> Null, ret |-> Null]
    /\ UNCHANGED <<maxSize, now, lvars, pvars>>
    /\ UNCHANGED <<svars, hvars, tvars, qvars>>

\* the clock advances
Tick(limit) ==
    /\ now < limit
    /\ now' = now + 1
    /\ UNCHANGED <<cache, maxSize, hist, call, lvars, pvars>>
    /\ UNCHANGED <<svars, hvars, tvars, qvars>>

\* the coordinates named by the calls since the last clear, and the bodies the
\* cache or the latest call holds
HistCoords == {c \in Coords : \E i \in 1..Len(hist) : hist[i].key = getCacheKey(c[1], c[2], c[3])}

HeldBodies == {cache[i].buffer : i \in 1..Len(cache)} \cup ({call.buffer} \ {Null})

\* any sequence of calls. Coordinates and bodies are interchangeable, so a
\* coordinate or body not yet in use is always the lowest one.
CacheNext ==
    \/ \E c \in Coords :
            /\ \A x \in 0..(c[2] - 1) : <<c[1], x, c[3]>> \in HistCoords
            /\ Get(c[1], c[2], c[3])
    \/ \E c \in Coords, b \in Buffers :
            /\ \A x \in 0..(c[2] - 1) : <<c[1], x, c[3]>> \in HistCoords
            /\ b \in HeldBodies \/ \A lower \in 1..(b - 1) : lower \in HeldBodies
            /\ Set(c[1], c[2], c[3], b)
    \/ Clear
    \/ Tick(MaxTime)

SpecCache == CacheInit /\ [][CacheNext]_vars

(***************************************************************************)
(* RateLimiter                                                             *)
(***************************************************************************)
\* the test letting one call more through
AtMaxConcurrent_Strict(active, limit) == active > limit

\* waitForSlot's test "if we're at max concurrent requests, queue"
AtMaxConcurrent(active, limit) == active >= limit

\* the finally block leaving the counter as it is
Decremented_Kept(active) == active

\* "this.activeRequests--" in execute's finally block
Decremented(active) == active - 1

\* waitForSlot's setTimeout argument; no wait when it is not positive
SpacingWait(t, last, delay) ==
    IF t - last < delay THEN delay - (t - last) ELSE 0

\* the dispatch log keeps the time of the latest two dispatches
Dispatch(log, t) == IF Len(log) < 2 THEN Append(log, t) ELSE <<log[2], t>>

\* waitForSlot from "Enforce minimum delay between requests" on: the caller
\* either starts a timer or sets lastRequestTime and returns
EnforceDelay(p) ==
    LET w == SpacingWait(now, lastRequestTime, minDelay)
    IN  IF w > 0
        THEN /\ wake' = [wake EXCEPT ![p] = now + w]
             /\ pc' = [pc EXCEPT ![p] = "spacing"]
             /\ UNCHANGED <<lastRequestTime, dispatched>>
        ELSE /\ lastRequestTime' = now
             /\ dispatched' = Dispatch(dispatched, now)
             /\ pc' = [pc EXCEPT ![p] = "admitted"]
             /\ UNCHANGED wake

\* processQueue waking nobody
CanWake_Never(q, active, limit) == FALSE

\* processQueue's test
CanWake(q, active, limit) == Len(q) > 0 /\ active < limit

\* the last entry taken instead of the first
Shift_Last(q) == [first |-> q[Len(q)], rest |-> SubSeq(q, 1, Len(q) - 1)]

\* this.queue.shift(): the first entry, and the queue without it
Shift(q) == [first |-> Head(q), rest |-> Tail(q)]

(***************************************************************************)
(* fetchWithRetry                                                          *)
(***************************************************************************)
\* the for loop's condition, one iteration too many
LoopContinues_OffByOne(a, retries) == a <= retries

\* the for loop's condition
LoopContinues(a, retries) == a < retries

\* "Wait before retrying": the catch block's test
ShouldBackoff(a, retries) == a < retries - 1

\* the backoff delay, not growing
BackoffDelay_Constant(base, a) == base

\* the backoff delay
BackoffDelay(base, a) == base * 2 ^ a

\* the attempts that have failed so far, over all calls
Failures ==
    Cardinality({pi \in (DOMAIN outcomes) \X (1..maxRetries) :
                    /\ pi[2] <= Len(outcomes[pi[1]])
                    /\ outcomes[pi[1]][pi[2]].status # "ok"})

\* the loop is entered with this value of attempt: the next fetch is issued,
\* or the loop is over and the function throws lastError
EnterLoop(p, a, err) ==
    /\ attempt' = [attempt EXCEPT ![p] = a]
    /\ IF LoopContinues(a, maxRetries)
       THEN /\ pc' = [pc EXCEPT ![p] = "fetching"]
            /\ UNCHANGED result
       ELSE /\ pc' = [pc EXCEPT ![p] = "settled"]
            /\ result' = [result EXCEPT ![p] =
                            [kind |-> "error",
                             error |-> IF err = NoError THEN "exhausted" ELSE err]]

(***************************************************************************)
(* fetchTile, one action per synchronous stretch between two awaits        *)
(***************************************************************************)
FetchInit ==
    /\ cache = <<>>
    /\ maxSize = MaxCap
    /\ now = minDelay
    /\ hist = <<>>
    /\ call = [op |-> "new", key |-> <<>>, buffer |-> Null, ret |-> Null]
    /\ activeRequests = 0
    /\ queue = <<>>
    /\ lastRequestTime = 0
    /\ dispatched = <<>>
    /\ pc = [p \in Callers |-> "idle"]
    /\ coord = [p \in Callers |-> <<>>]
    /\ attempt = [p \in Callers |-> 0]
    /\ lastError = [p \in Callers |-> NoError]
    /\ wake = [p \in Callers |-> 0]
    /\ result = [p \in Callers |-> <<>>]
    /\ outcomes = [p \in Callers |-> <<>>]
    /\ slept = [p \in Callers |-> <<>>]
    /\ ServerIdle /\ HashIdle /\ TilesIdle /\ QueryIdle

\* timer and network callbacks are tasks of the event loop: none runs while a
\* promise continuation (microtask) is ready to run
NoMicrotask == \A p \in DOMAIN pc : pc[p] \notin {"resumed", "admitted", "settled", "released"}

\* "if (cached)", never taken
CacheHit_Never(cached) == FALSE

\* "if (cached)": a Buffer is truthy, undefined is not
CacheHit(cached) == cached # Null

\* fetchTile is called: cache lookup, then execute and waitForSlot up to
\* their first await
FetchTile(p, zoom, x, y) ==
    LET r == TileCacheGet(cache, getCacheKey(zoom, x, y), now, Ttl)
    IN  /\ pc[p] = "idle"
        /\ coord' = [coord EXCEPT ![p] = <<zoom, x, y>>]
        /\ cache' = r.cache
        /\ IF CacheHit(r.ret)
           THEN /\ pc' = [pc EXCEPT ![p] = "done"]
                /\ result' = [result EXCEPT ![p] = [kind |-> "ok", buffer |-> r.ret]]
                /\ UNCHANGED <<lvars, wake>>
           ELSE /\ IF AtMaxConcurrent(activeRequests, maxConcurrent)
                   THEN /\ queue' = Append(queue, p)
                        /\ pc' = [pc EXCEPT ![p] = "queued"]
                        /\ UNCHANGED <<lastRequestTime, dispatched, wake>>
                   ELSE /\ EnforceDelay(p)
                        /\ UNCHANGED queue
                /\ UNCHANGED <<activeRequests, result>>
        /\ UNCHANGED <<maxSize, now, hist, call, attempt, lastError, outcomes, slept>>
        /\ UNCHANGED <<svars, hvars, tvars, qvars>>

\* a queued caller whose resolve was called goes on in waitForSlot
Resume(p) ==
    /\ pc[p] = "resumed"
    /\ EnforceDelay(p)
    /\ UNCHANGED <<cvars, activeRequests, queue, coord, attempt, lastError, result,
                   outcomes, slept>>
    /\ UNCHANGED <<svars, hvars, tvars, qvars>>

\* the spacing timer fires: waitForSlot sets lastRequestTime and returns
SpacingDone(p) ==
    /\ pc[p] = "spacing"
    /\ NoMicrotask
    /\ now >= wake[p]
    /\ lastRequestTime' = now
    /\ dispatched' = Dispatch(dispatched, now)
    /\ wake' = [wake EXCEPT ![p] = 0]
    /\ pc' = [pc EXCEPT ![p] = "admitted"]
    /\ UNCHANGED <<cvars, activeRequests, queue, coord, attempt, lastError, result,
                   outcomes, slept>>
    /\ UNCHANGED <<svars, hvars, tvars, qvars>>

\* execute goes on after "await this.waitForSlot()": it counts the request
\* and calls fn, which runs fetchWithRetry up to its first fetch
Acquire(p) ==
    /\ pc[p] = "admitted"
    /\ activeRequests' = activeRequests + 1
    /\ lastError' = [lastError EXCEPT ![p] = NoError]
    /\ EnterLoop(p, 0, NoError)
    /\ UNCHANGED <<cvars, queue, lastRequestTime, dispatched, coord, wake,
                   outcomes, slept>>
    /\ UNCHANGED <<svars, hvars, tvars, qvars>>

\* the upstream answers the pending fetch (or the fetch rejects or is aborted)
Respond(p, status, body) ==
    /\ pc[p] = "fetching"
    /\ NoMicrotask
    /\ outcomes' = [outcomes EXCEPT ![p] =
                        Append(@, [status |-> status,
                                   body |-> IF status = "ok" THEN body ELSE Null])]
    /\ IF status = "ok"
       THEN /\ result' = [result EXCEPT ![p] = [kind |-> "ok", buffer |-> body]]
            /\ pc' = [pc EXCEPT ![p] = "settled"]
            /\ UNCHANGED <<lastError, attempt, wake, slept>>
       ELSE /\ lastError' = [lastError EXCEPT ![p] = status]
            /\ IF ShouldBackoff(attempt[p], maxRetries)
               THEN /\ wake' = [wake EXCEPT ![p] = now + BackoffDelay(baseDelay, attempt[p])]
                    /\ slept' = [slept EXCEPT ![p] =
                                    Append(@, BackoffDelay(baseDelay, attempt[p]))]
                    /\ pc' = [pc EXCEPT ![p] = "backoff"]
                    /\ UNCHANGED <<attempt, result>>
               ELSE /\ EnterLoop(p, attempt[p] + 1, status)
                    /\ UNCHANGED <<wake, slept>>
    /\ UNCHANGED <<cvars, lvars, coord>>
    /\ UNCHANGED <<svars, hvars, tvars, qvars>>

\* the backoff timer fires: the loop goes to its next iteration
BackoffDone(p) ==
    /\ pc[p] = "backoff"
    /\ NoMicrotask
    /\ now >= wake[p]
    /\ wake' = [wake EXCEPT ![p] = 0]
    /\ EnterLoop(p, attempt[p] + 1, lastError[p])
    /\ UNCHANGED <<cvars, lvars, coord, lastError, outcomes, slept>>
    /\ UNCHANGED <<svars, hvars, tvars, qvars>>

\* execute's finally block: activeRequests-- and processQueue
Release(p) ==
    /\ pc[p] = "settled"
    /\ activeRequests' = Decremented(activeRequests)
    /\ IF CanWake(queue, Decremented(activeRequests), maxConcurrent)
       THEN /\ queue' = Shift(queue).rest
            /\ pc' = [pc EXCEPT ![p] = "released", ![Shift(queue).first] = "resumed"]
       ELSE /\ pc' = [pc EXCEPT ![p] = "released"]
            /\ UNCHANGED queue
    /\ UNCHANGED <<cvars, lastRequestTime, dispatched, coord, attempt, lastError, wake,
                   result, outcomes, slept>>
    /\ UNCHANGED <<svars, hvars, tvars, qvars>>

\* fetchTile goes on after "await rateLimiter.execute": it stores the buffer
\* and returns it, or the rejection propagates
Return(p) ==
    /\ pc[p] = "released"
    /\ IF result[p].kind = "ok"
       THEN /\ cache' = TileCacheSet(cache, getCacheKey(coord[p][1], coord[p][2], coord[p][3]),
                                     result[p].buffer, now, maxSize)
            /\ pc' = [pc EXCEPT ![p] = "done"]
       ELSE /\ pc' = [pc EXCEPT ![p] = "failed"]
            /\ UNCHANGED cache
    /\ UNCHANGED <<maxSize, now, hist, call, lvars, coord, attempt, lastError, wake,
                   result, outcomes, slept>>
    /\ UNCHANGED <<svars, hvars, tvars, qvars>>

\* the last tick a single call can need: the first dispatch, every backoff
\* of a call whose attempts all fail, and one tick more
RetryClock == minDelay + baseDelay * (2 ^ (maxRetries - 1) - 1) + 1

\* the coordinates asked for and the bodies served so far
UsedCoords == {coord[p] : p \in {q \in Callers : pc[q] # "idle"}}

UsedBodies == {result[p].buffer : p \in {q \in Callers : result[q] # <<>> /\ result[q].kind = "ok"}}

\* concurrent calls. Calls, coordinates and bodies are interchangeable, so
\* each is numbered in the order of its first use; the upstream fails at most
\* MaxFailures attempts.
Next ==
    \/ \E p \in Callers, c \in FetchCoords :
            /\ pc[p] = "idle"
            /\ \A q \in 1..(p - 1) : pc[q] # "idle"
            /\ \A x \in 0..(c[2] - 1) : <<c[1], x, c[3]>> \in UsedCoords
            /\ FetchTile(p, c[1], c[2], c[3])
    \/ \E p \in Callers : Resume(p)
    \/ \E p \in Callers : SpacingDone(p)
    \/ \E p \in Callers : Acquire(p)
    \/ \E p \in Callers, status \in Statuses, body \in Buffers :
            /\ pc[p] = "fetching"
            /\ status # "ok" => Failures < MaxFailures
            /\ \A b \in 1..(body - 1) : b \in UsedBodies
            /\ Respond(p, status, body)
    \/ \E p \in Callers : BackoffDone(p)
    \/ \E p \in Callers : Release(p)
    \/ \E p \in Callers : Return(p)
    \/ Tick(MaxClock)

Spec == FetchInit /\ [][Next]_vars

\* one call followed through all its attempts, the upstream failing at will
RetryNext ==
    \/ \E c \in FetchCoords : FetchTile(1, c[1], c[2], c[3])
    \/ Acquire(1)
    \/ \E status \in Statuses, body \in Buffers : Respond(1, status, body)
    \/ BackoffDone(1)
    \/ Release(1)
    \/ Return(1)
    \/ Tick(RetryClock)

SpecRetry == FetchInit /\ [][RetryNext]_vars

\* an entry as TileCache.set stores it
Entry(co, buffer, timestamp) ==
    [key |-> getCacheKey(co[1], co[2], co[3]), buffer |-> buffer, timestamp |-> timestamp]

\* the memory cache as earlier calls can have left it: at most two entries,
\* of distinct tiles, in the order in which they were stored
WarmCaches ==
    {<<>>}
    \cup {<<Entry(co, b, 0)>> : co \in FetchCoords, b \in Buffers}
    \cup {<<Entry(c[1], b[1], 0), Entry(c[2], b[2], t)>> :
            c \in {d \in FetchCoords \X FetchCoords : d[1] # d[2]},
            b \in Buffers \X Buffers, t \in 0..minDelay}

\* time for an entry to expire and then for a call to use up its attempts
WarmClock == Ttl + RetryClock

WarmInit ==
    /\ maxSize = MaxCap
    /\ cache \in {c \in WarmCaches : Len(c) <= MaxCap}
    /\ now = minDelay
    /\ hist = <<>>
    /\ call = [op |-> "new", key |-> <<>>, buffer |-> Null, ret |-> Null]
    /\ activeRequests = 0
    /\ queue = <<>>
    /\ lastRequestTime = 0
    /\ dispatched = <<>>
    /\ pc = [p \in Callers |-> "idle"]
    /\ coord = [p \in Callers |-> <<>>]
    /\ attempt = [p \in Callers |-> 0]
    /\ lastError = [p \in Callers |-> NoError]
    /\ wake = [p \in Callers |-> 0]
    /\ result = [p \in Callers |-> <<>>]
    /\ outcomes = [p \in Callers |-> <<>>]
    /\ slept = [p \in Callers |-> <<>>]
    /\ ServerIdle /\ HashIdle /\ TilesIdle /\ QueryIdle

\* one call on a cache that holds entries, the upstream failing at will
WarmNext ==
    \/ \E c \in FetchCoords : FetchTile(1, c[1], c[2], c[3])
    \/ Acquire(1)
    \/ \E status \in Statuses, body \in Buffers : Respond(1, status, body)
    \/ BackoffDone(1)
    \/ Release(1)
    \/ Return(1)
    \/ Tick(WarmClock)

SpecWarm == WarmInit /\ [][WarmNext]_vars

(***************************************************************************)
(* The /map handler (server/index.ts), one action per stretch between two  *)
(* awaits. fetchTile is taken by its outcome: it resolves or it rejects.   *)
(***************************************************************************)
\* latitudes of the requests
ServerLats == {3, 23}

\* the validated parameters a request can carry
ServerTuples ==
    {[zoom |-> 12, lat |-> la, lon |-> 4, marker |-> Str(<<"p">>),
      anchor |-> Str(<<"c">>), scale |-> sc] : la \in ServerLats, sc \in Scales}

\* generateSingleTileMap's scale: Math.max(1, Math.min(4, Math.floor(outputScale ?? 1)))
ClampScale(outputScale) ==
    IF outputScale < 1 THEN 1 ELSE IF outputScale > 4 THEN 4 ELSE outputScale

\* the image generateSingleTileMap draws for these parameters, re-encoded as
\* WebP: it is known by what it shows
Compose(t) ==
    [format |-> "webp", zoom |-> t.zoom, lat |-> t.lat, lon |-> t.lon,
     marker |-> t.marker, anchor |-> t.anchor, scale |-> ClampScale(t.scale)]

NoImage == <<>>

\* Promise.allSettled instead: the failures are only seen at the end and ignored
PromiseAll_IgnoreFailures(settled) ==
    IF Len(settled) = NumTiles THEN "fulfilled" ELSE "pending"

\* Promise.all(tileFetches), given how the fetches have settled so far
PromiseAll(settled) ==
    IF \E i \in 1..Len(settled) : settled[i] = "failed" THEN "rejected"
    ELSE IF Len(settled) = NumTiles THEN "fulfilled"
    ELSE "pending"

\* the fetch handler's catch: "Internal Server Error"
InternalServerError(cause) == [status |-> 500, image |-> NoImage, error |-> cause]

ServerInit == FetcherIdle /\ ServerIdle /\ HashIdle /\ TilesIdle /\ QueryIdle

\* GET /map passed validation: handleMapRequest computes the hash and awaits
\* file.exists(). The sixth argument of the call, scale, has no parameter in
\* core/hash.ts to bind to.
MapRequest(r, t) ==
    /\ rpc[r] = "idle"
    /\ rparams' = [rparams EXCEPT ![r] = t]
    /\ rhash' = [rhash EXCEPT ![r] = generateHash(t.zoom, t.lat, t.lon, t.marker, t.anchor)]
    /\ rpc' = [rpc EXCEPT ![r] = "exists"]
    /\ UNCHANGED <<disk, rtiles, rlog, response>>
    /\ UNCHANGED <<cvars, lvars, pvars, hvars, tvars, qvars>>

\* file.exists() resolves: the cached file is handed to the Response, or
\* generateSingleTileMap runs up to Promise.all, its tile fetches issued
ExistsDone(r) ==
    /\ rpc[r] = "exists"
    /\ IF DiskHas(disk, rhash[r])
       THEN /\ rpc' = [rpc EXCEPT ![r] = "serving"]
            /\ rlog' = [rlog EXCEPT ![r] = Append(@, "exists") \o <<"response">>]
       ELSE /\ rpc' = [rpc EXCEPT ![r] = "composing"]
            /\ rlog' = [rlog EXCEPT ![r] = Append(@, "exists") \o <<"compose">>]
    /\ UNCHANGED <<disk, rparams, rhash, rtiles, response>>
    /\ UNCHANGED <<cvars, lvars, pvars, hvars, tvars, qvars>>

\* one more tile fetch settles: fetchTile and loadImage gave an image, or one
\* of them threw. Promise.all rejects on the first failure, the rejection
\* leaves handleMapRequest and the fetch handler's catch answers; when all
\* have an image the map is drawn and sharp is awaited.
TileSettled(r, outcome) ==
    LET settled == Append(rtiles[r], outcome)
    IN  /\ rpc[r] = "composing"
        /\ Len(rtiles[r]) < NumTiles
        /\ rtiles' = [rtiles EXCEPT ![r] = settled]
        /\ IF PromiseAll(settled) = "rejected"
           THEN /\ rpc' = [rpc EXCEPT ![r] = "responded"]
                /\ response' = [response EXCEPT ![r] = InternalServerError("tile")]
           ELSE /\ rpc' = [rpc EXCEPT ![r] =
                            IF PromiseAll(settled) = "fulfilled" THEN "encoding" ELSE "composing"]
                /\ UNCHANGED response
        /\ UNCHANGED <<disk, rparams, rhash, rlog>>
        /\ UNCHANGED <<cvars, lvars, pvars, hvars, tvars, qvars>>

\* sharp(pngBuffer).webp().toBuffer() settles: Bun.write is called, or the
\* rejection reaches the catch
Encoded(r, ok) ==
    /\ rpc[r] = "encoding"
    /\ IF ok
       THEN /\ rpc' = [rpc EXCEPT ![r] = "writing"]
            /\ UNCHANGED response
       ELSE /\ rpc' = [rpc EXCEPT ![r] = "responded"]
            /\ response' = [response EXCEPT ![r] = InternalServerError("render")]
    /\ UNCHANGED <<disk, rparams, rhash, rtiles, rlog>>
    /\ UNCHANGED <<cvars, lvars, pvars, hvars, tvars, qvars>>

\* Bun.write settles: the file is on disk and is handed to the Response, or
\* the rejection reaches the catch
WriteDone(r, ok) ==
    /\ rpc[r] = "writing"
    /\ IF ok
       THEN /\ disk' = DiskWrite(disk, rhash[r], Compose(rparams[r]))
            /\ rlog' = [rlog EXCEPT ![r] = Append(@, "write") \o <<"response">>]
            /\ rpc' = [rpc EXCEPT ![r] = "serving"]
            /\ UNCHANGED response
       ELSE /\ rlog' = [rlog EXCEPT ![r] = Append(@, "writefail")]
            /\ rpc' = [rpc EXCEPT ![r] = "responded"]
            /\ response' = [response EXCEPT ![r] = InternalServerError("write")]
            /\ UNCHANGED disk
    /\ UNCHANGED <<rparams, rhash, rtiles>>
    /\ UNCHANGED <<cvars, lvars, pvars, hvars, tvars, qvars>>

\* the server sends the Response whose body is Bun.file(filePath): the file
\* is read, or reading it fails after handleMapRequest has returned
SendFile(r, ok) ==
    /\ rpc[r] = "serving"
    /\ rpc' = [rpc EXCEPT ![r] = "responded"]
    /\ IF ok /\ DiskRead(disk, rhash[r]) # {}
       THEN /\ \E image \in DiskRead(disk, rhash[r]) :
                    response' = [response EXCEPT ![r] =
                                    [status |-> 200, image |-> image, error |-> "none"]]
            /\ UNCHANGED rlog
       ELSE /\ response' = [response EXCEPT ![r] = InternalServerError("read")]
            /\ rlog' = [rlog EXCEPT ![r] = Append(@, "readfail")]
    /\ UNCHANGED <<disk, rparams, rhash, rtiles>>
    /\ UNCHANGED <<cvars, lvars, pvars, hvars, tvars, qvars>>

\* the latitudes requested so far
UsedLats == {rparams[r].lat : r \in {q \in Requests : rpc[q] # "idle"}}

\* requests arrive at any time. Requests and latitudes are interchangeable,
\* so each is numbered in the order of its first use.
ServerNext ==
    \/ \E r \in Requests, t \in ServerTuples :
            /\ rpc[r] = "idle"
            /\ \A q \in 1..(r - 1) : rpc[q] # "idle"
            /\ \A la \in ServerLats : la < t.lat => la \in UsedLats
            /\ MapRequest(r, t)
    \/ \E r \in Requests : ExistsDone(r)
    \/ \E r \in Requests, outcome \in {"ok", "failed"} : TileSettled(r, outcome)
    \/ \E r \in Requests, ok \in BOOLEAN : Encoded(r, ok)
    \/ \E r \in Requests, ok \in BOOLEAN : WriteDone(r, ok)
    \/ \E r \in Requests, ok \in BOOLEAN : SendFile(r, ok)

SpecServer == ServerInit /\ [][ServerNext]_vars

(***************************************************************************)
(* generateHash applied to two argument tuples                             *)
(***************************************************************************)
\* zoom within CONFIG.minZoom..CONFIG.maxZoom, lat within -90..90, lon within
\* -180..180, a configured marker or none, a configured anchor
HashZooms == {1, 12}

HashLats == {3, 23}

HashLons == {4}

HashMarkers == {Undefined, Str(<<"p">>)}

HashAnchors == {Str(<<"c">>)}

HashTuples ==
    [zoom : HashZooms, lat : HashLats, lon : HashLons, marker : HashMarkers,
     anchor : HashAnchors, scale : Scales]

NotHashed == <<>>

HashInit ==
    /\ FetcherIdle /\ ServerIdle /\ TilesIdle /\ QueryIdle
    /\ hashArgs \in [1..2 -> HashTuples]
    /\ hashOut = [i \in 1..2 |-> NotHashed]
    /\ hashOutScale = [i \in 1..2 |-> NotHashed]

\* core/hash.ts is called as handleMapRequest calls it
GenerateHash(i) ==
    /\ hashOut[i] = NotHashed
    /\ hashOut' = [hashOut EXCEPT ![i] =
                        generateHash(hashArgs[i].zoom, hashArgs[i].lat, hashArgs[i].lon,
                                     hashArgs[i].marker, hashArgs[i].anchor)]
    /\ UNCHANGED <<hashArgs, hashOutScale>>
    /\ UNCHANGED <<cvars, lvars, pvars, svars, tvars, qvars>>

\* the scale-aware generateHash is called
GenerateHashScale(i) ==
    /\ hashOutScale[i] = NotHashed
    /\ hashOutScale' = [hashOutScale EXCEPT ![i] =
                            generateHashScale(hashArgs[i].zoom, hashArgs[i].lat,
                                              hashArgs[i].lon, hashArgs[i].marker,
                                              hashArgs[i].anchor, hashArgs[i].scale)]
    /\ UNCHANGED <<hashArgs, hashOut>>
    /\ UNCHANGED <<cvars, lvars, pvars, svars, tvars, qvars>>

HashNext ==
    \/ \E i \in 1..2 : GenerateHash(i)
    \/ \E i \in 1..2 : GenerateHashScale(i)

SpecHash == HashInit /\ [][HashNext]_vars

(***************************************************************************)
(* The tile coordinates of a composition (core/tile.ts)                    *)
(***************************************************************************)
\* a % n of JavaScript: the result has the sign of a
JsRem(a, n) == IF a >= 0 THEN a % n ELSE -((-a) % n)

\* tileX % n alone
WrapX_SingleRem(tileX, n) == JsRem(tileX, n)

\* wrappedX = ((tileX % n) + n) % n
WrapX(tileX, n) == JsRem(JsRem(tileX, n) + n, n)

\* clampedY = Math.min(Math.max(tileY, 0), n - 1)
ClampY(tileY, n) ==
    LET lower == IF tileY > 0 THEN tileY ELSE 0
    IN  IF lower < n - 1 THEN lower ELSE n - 1

\* top-left tile indices from below 0 to beyond 2^zoom for every zoom
TileIndices == (-(2 ^ MaxTileZoom) - 1)..(2 ^ MaxTileZoom + 1)

TileInit ==
    /\ FetcherIdle /\ ServerIdle /\ HashIdle /\ QueryIdle
    /\ tileArgs \in [zoom : 0..MaxTileZoom, tileX0 : TileIndices, tileY0 : TileIndices]
    /\ tileFetches = <<>>
    /\ tileSettled = <<>>
    /\ canvas = <<>>
    /\ markerArgs = <<>>
    /\ markerPc = "idle"
    /\ markerImageCache = {}

\* one iteration of the loop over row and col: the coordinate is computed
\* and passed to fetchTile
PushTileFetch(row, col) ==
    LET n == 2 ^ tileArgs.zoom
        tileX == tileArgs.tileX0 + col
        tileY == tileArgs.tileY0 + row
    IN  /\ Len(tileFetches) = 2 * row + col
        /\ tileFetches' = Append(tileFetches,
                                 <<tileArgs.zoom, WrapX(tileX, n), ClampY(tileY, n)>>)
        /\ UNCHANGED <<tileArgs, tileSettled, canvas, markerArgs, markerPc, markerImageCache>>
        /\ UNCHANGED <<cvars, lvars, pvars, svars, hvars, qvars>>

TileNext == \E row \in 0..1, col \in 0..1 : PushTileFetch(row, col)

SpecTiles == TileInit /\ [][TileNext]_vars

(***************************************************************************)
(* The tiles of a composition: fetched in parallel, joined, drawn          *)
(***************************************************************************)
DrawZooms == {0, 1}

DrawIndices == {-1, 0, 1}

\* offsetX and offsetY, within a tile
DrawOffsets == {0, 100}

\* loadImage of the bytes the upstream serves for a coordinate
TileImage(co) == <<"image", co>>

RowOf(k) == (k - 1) \div 2

ColOf(k) == (k - 1) % 2

\* what the k-th async function pushed by the loop resolves to
TileInfo(args, fetches, k) ==
    [image |-> TileImage(fetches[k]),
     drawX |-> ColOf(k) * tileSize - args.offsetX,
     drawY |-> RowOf(k) * tileSize - args.offsetY]

\* the array Promise.all resolves to, in the order the promises resolved
PromiseAllValues_SettlingOrder(args, fetches, done) ==
    [i \in 1..NumTiles |-> TileInfo(args, fetches, done[i].tile)]

\* the array Promise.all resolves to: the values in the order of the promises
PromiseAllValues(args, fetches, done) ==
    [k \in 1..NumTiles |-> TileInfo(args, fetches, k)]

Outcomes(done) == [i \in 1..Len(done) |-> done[i].outcome]

DrawInit ==
    /\ FetcherIdle /\ ServerIdle /\ HashIdle /\ QueryIdle
    /\ tileArgs \in [zoom : DrawZooms, tileX0 : DrawIndices, tileY0 : DrawIndices,
                     offsetX : DrawOffsets, offsetY : DrawOffsets]
    /\ tileFetches = <<>>
    /\ tileSettled = <<>>
    /\ canvas = <<>>
    /\ markerArgs = <<>>
    /\ markerPc = "idle"
    /\ markerImageCache = {}

\* the loop over row and col: the four coordinates are computed and the
\* four fetches started, and generateSingleTileMap awaits Promise.all
IssueTileFetches ==
    LET n == 2 ^ tileArgs.zoom
    IN  /\ tileFetches = <<>>
        /\ tileFetches' = [k \in 1..NumTiles |->
                                <<tileArgs.zoom,
                                  WrapX(tileArgs.tileX0 + ColOf(k), n),
                                  ClampY(tileArgs.tileY0 + RowOf(k), n)>>]
        /\ UNCHANGED <<tileArgs, tileSettled, canvas, markerArgs, markerPc, markerImageCache>>
        /\ UNCHANGED <<cvars, lvars, pvars, svars, hvars, qvars>>

\* the fetch of tile k settles: fetchTile and loadImage gave the image, or
\* one of them threw
TileFetchSettled(k, outcome) ==
    /\ tileFetches # <<>>
    /\ \A i \in 1..Len(tileSettled) : tileSettled[i].tile # k
    /\ tileSettled' = Append(tileSettled, [tile |-> k, outcome |-> outcome])
    /\ UNCHANGED <<tileArgs, tileFetches, canvas, markerArgs, markerPc, markerImageCache>>
    /\ UNCHANGED <<cvars, lvars, pvars, svars, hvars, qvars>>

\* Promise.all has resolved: "for (const { image, drawX, drawY } of tiles)"
DrawTiles ==
    /\ PromiseAll(Outcomes(tileSettled)) = "fulfilled"
    /\ canvas = <<>>
    /\ canvas' = PromiseAllValues(tileArgs, tileFetches, tileSettled)
    /\ UNCHANGED <<tileArgs, tileFetches, tileSettled, markerArgs, markerPc, markerImageCache>>
    /\ UNCHANGED <<cvars, lvars, pvars, svars, hvars, qvars>>

DrawNext ==
    \/ IssueTileFetches
    \/ \E k \in 1..NumTiles, outcome \in {"ok", "failed"} : TileFetchSettled(k, outcome)
    \/ DrawTiles

SpecDraw == DrawInit /\ [][DrawNext]_vars

(***************************************************************************)
(* The tile fetches of one composition, through fetchTile                  *)
(***************************************************************************)
\* the calls of one composition, one per tile of generateSingleTileMap's loop
BatchCallers == 1..NumTiles

\* the coordinate of the k-th fetchTile call of the loop
BatchCoord(args, k) ==
    <<args.zoom,
      WrapX(args.tileX0 + ColOf(k), 2 ^ args.zoom),
      ClampY(args.tileY0 + RowOf(k), 2 ^ args.zoom)>>

\* the bytes the upstream serves for a tile
TileBody(co) == 1

\* cold memory cache and idle rate limiter, for these calls to come
FetcherStart(callers) ==
    /\ cache = <<>>
    /\ maxSize = MaxCap
    /\ now = minDelay
    /\ hist = <<>>
    /\ call = [op |-> "new", key |-> <<>>, buffer |-> Null, ret |-> Null]
    /\ activeRequests = 0
    /\ queue = <<>>
    /\ lastRequestTime = 0
    /\ dispatched = <<>>
    /\ pc = [p \in callers |-> "idle"]
    /\ coord = [p \in callers |-> <<>>]
    /\ attempt = [p \in callers |-> 0]
    /\ lastError = [p \in callers |-> NoError]
    /\ wake = [p \in callers |-> 0]
    /\ result = [p \in callers |-> <<>>]
    /\ outcomes = [p \in callers |-> <<>>]
    /\ slept = [p \in callers |-> <<>>]

\* a composition starts
BatchInit ==
    /\ FetcherStart(BatchCallers)
    /\ ServerIdle /\ HashIdle /\ QueryIdle
    /\ tileArgs \in [zoom : DrawZooms, tileX0 : DrawIndices, tileY0 : DrawIndices,
                     offsetX : {0}, offsetY : {0}]
    /\ tileFetches = <<>>
    /\ tileSettled = <<>>
    /\ canvas = <<>>
    /\ markerArgs = <<>>
    /\ markerPc = "idle"
    /\ markerImageCache = {}

\* the loop has made its four calls
AllCalled == \A p \in BatchCallers : pc[p] # "idle"

\* generateSingleTileMap's loop runs to its end before any continuation or
\* callback: its four fetchTile calls follow each other, then the calls go
\* on in any order. The upstream answers every request with the tile. No
\* call is queued, since activeRequests is still 0 when the fourth call
\* tests it, and no call backs off.
BatchNext ==
    \/ \E p \in BatchCallers :
            /\ pc[p] = "idle"
            /\ \A q \in 1..(p - 1) : pc[q] # "idle"
            /\ FetchTile(p, BatchCoord(tileArgs, p)[1], BatchCoord(tileArgs, p)[2],
                         BatchCoord(tileArgs, p)[3])
    \/ \E p \in BatchCallers : AllCalled /\ SpacingDone(p)
    \/ \E p \in BatchCallers : AllCalled /\ Acquire(p)
    \/ \E p \in BatchCallers :
            AllCalled /\ pc[p] = "fetching" /\ Respond(p, "ok", TileBody(coord[p]))
    \/ \E p \in BatchCallers : AllCalled /\ Release(p)
    \/ \E p \in BatchCallers : AllCalled /\ Return(p)
    \/ AllCalled /\ Tick(MaxClock)

SpecBatch == BatchInit /\ [][BatchNext]_vars

(***************************************************************************)
(* The rate limiter given more calls than maxConcurrent                    *)
(***************************************************************************)
QueueCallers == 1..(maxConcurrent + NumWaiters)

QueueInit ==
    /\ FetcherStart(QueueCallers)
    /\ ServerIdle /\ HashIdle /\ TilesIdle /\ QueryIdle

\* what the upstream does with a request: the tile, a client error, a
\* server error
QueueStatuses == {"ok", "4xx", "5xx"}

\* calls arrive at any time, each for a tile of its own, and are numbered
\* in the order of their arrival; the upstream fails at most MaxFailures
\* attempts
QueueNext ==
    \/ \E p \in QueueCallers :
            /\ pc[p] = "idle"
            /\ \A q \in 1..(p - 1) : pc[q] # "idle"
            /\ FetchTile(p, Zoom, p - 1, 0)
    \/ \E p \in QueueCallers : Resume(p)
    \/ \E p \in QueueCallers : SpacingDone(p)
    \/ \E p \in QueueCallers : Acquire(p)
    \/ \E p \in QueueCallers, status \in QueueStatuses :
            /\ pc[p] = "fetching"
            /\ status # "ok" => Failures < MaxFailures
            /\ Respond(p, status, TileBody(coord[p]))
    \/ \E p \in QueueCallers : BackoffDone(p)
    \/ \E p \in QueueCallers : Release(p)
    \/ \E p \in QueueCallers : Return(p)
    \/ Tick(MaxClock)

SpecQueue == QueueInit /\ [][QueueNext]_vars

\* one call more than the rate limiter lets through at a time
HoldCallers == 1..(maxConcurrent + 1)

HoldInit ==
    /\ FetcherStart(HoldCallers)
    /\ ServerIdle /\ HashIdle /\ TilesIdle /\ QueryIdle

\* the same calls, the first of them followed through all its attempts: the
\* upstream fails the attempts of the first call at will and answers the
\* others with the tile
HoldNext ==
    \/ \E p \in HoldCallers :
            /\ pc[p] = "idle"
            /\ \A q \in 1..(p - 1) : pc[q] # "idle"
            /\ FetchTile(p, Zoom, p - 1, 0)
    \/ \E p \in HoldCallers : Resume(p)
    \/ \E p \in HoldCallers : SpacingDone(p)
    \/ \E p \in HoldCallers : Acquire(p)
    \/ \E p \in HoldCallers, status \in QueueStatuses :
            /\ pc[p] = "fetching"
            /\ status # "ok" => p = 1
            /\ Respond(p, status, TileBody(coord[p]))
    \/ \E p \in HoldCallers : BackoffDone(p)
    \/ \E p \in HoldCallers : Release(p)
    \/ \E p \in HoldCallers : Return(p)
    \/ Tick(RetryClock)

SpecHold == HoldInit /\ [][HoldNext]_vars

(***************************************************************************)
(* The marker of a composition: the configured image, or the vector marker *)
(***************************************************************************)
TARGET_SIZE == 32

\* config.markers: a PNG drawn "contain" with a default anchor, and an SVG
\* drawn "cover" without one
ConfigMarkers ==
    {[name |-> <<"p">>, file |-> <<"p", ".", "p", "n", "g">>, fit |-> "contain",
      anchor |-> <<"b">>],
     [name |-> <<"s">>, file |-> <<"s", ".", "s", "v", "g">>, fit |-> "cover",
      anchor |-> <<>>]}

\* config.anchors, x and y in halves: center and bottom-left
ConfigAnchors ==
    {[name |-> <<"c">>, x2 |-> 1, y2 |-> 1],
     [name |-> <<"b">>, x2 |-> 0, y2 |-> 2]}

MarkerNames == {Undefined, Str(<<>>), Str(<<"p">>), Str(<<"s">>), Str(<<"q">>)}

AnchorNames == {Undefined, Str(<<"c">>), Str(<<"b">>), Str(<<"x">>)}

\* "name ? list.find(e => e.name === name) : undefined" is not undefined
Resolves(list, name) ==
    name.defined /\ name.chars # <<>> /\ \E e \in list : e.name = name.chars

\* "name ? list.find(e => e.name === name) : undefined"
Find(list, name) ==
    IF Resolves(list, name)
    THEN CHOOSE e \in list : e.name = name.chars
    ELSE Null

\* the image a marker file decodes to
MarkerImage(file) ==
    IF file = <<"p", ".", "p", "n", "g">>
    THEN [file |-> file, width |-> 64, height |-> 32]
    ELSE [file |-> file, width |-> 0, height |-> 48]

\* file.toLowerCase().endsWith('.svg')
IsSvg(file) ==
    /\ Len(file) >= 4
    /\ SubSeq(file, Len(file) - 3, Len(file)) = <<".", "s", "v", "g">>

\* Math.round of a / b for a >= 0, b > 0
RoundDiv(a, b) == (2 * a + b) \div (2 * b)

Max(a, b) == IF a >= b THEN a ELSE b

Min(a, b) == IF a <= b THEN a ELSE b

\* ctx.drawImage(img, 0, 0, iw, ih, dx, dy, drawW, drawH); dx, dy in halves
ImageMarker(img, marker, anchor) ==
    LET iw    == IF img.width = 0 THEN 1 ELSE img.width
        ih    == IF img.height = 0 THEN 1 ELSE img.height
        d     == IF marker.fit = "cover" THEN Min(iw, ih) ELSE Max(iw, ih)
        drawW == Max(1, RoundDiv(iw * TARGET_SIZE, d))
        drawH == Max(1, RoundDiv(ih * TARGET_SIZE, d))
    IN  [op |-> "image", file |-> img.file, iw |-> iw, ih |-> ih,
         dx2 |-> tileSize - anchor.x2 * drawW, dy2 |-> tileSize - anchor.y2 * drawH,
         drawW |-> drawW, drawH |-> drawH]

\* the fallback marker: filled circle, border, cross, at the canvas center
VectorMarker ==
    <<[op |-> "circle", cx |-> tileSize \div 2, cy |-> tileSize \div 2],
      [op |-> "border", cx |-> tileSize \div 2, cy |-> tileSize \div 2],
      [op |-> "cross", cx |-> tileSize \div 2, cy |-> tileSize \div 2]>>

Attribution == <<[op |-> "attribution"]>>

DrawVector_Always(drewImageMarker) == TRUE

\* "if (!drewImageMarker)"
DrawVector(drewImageMarker) == ~drewImageMarker

MarkerInputs == [markerName : MarkerNames, anchorName : AnchorNames]

MarkerInit ==
    /\ FetcherIdle /\ ServerIdle /\ HashIdle /\ QueryIdle
    /\ tileArgs = <<>>
    /\ tileFetches = <<>>
    /\ tileSettled = <<>>
    /\ canvas = <<[op |-> "tiles"]>>
    /\ markerArgs \in MarkerInputs
    /\ markerPc = "idle"
    /\ markerImageCache = {}

SelectedMarker == Find(ConfigMarkers, markerArgs.markerName)

SelectedAnchor == Find(ConfigAnchors, markerArgs.anchorName)

\* "if (selectedMarker && selectedAnchor)"
BothSelected ==
    /\ Resolves(ConfigMarkers, markerArgs.markerName)
    /\ Resolves(ConfigAnchors, markerArgs.anchorName)

\* the rest of generateSingleTileMap once the marker image is there or is
\* given up: the image marker or the vector marker, the attribution bar,
\* and the buffer is returned
FinishMarker(drewImageMarker, img) ==
    /\ canvas' = canvas
                    \o (IF drewImageMarker
                        THEN <<ImageMarker(img, SelectedMarker, SelectedAnchor)>>
                        ELSE <<>>)
                    \o (IF DrawVector(drewImageMarker) THEN VectorMarker ELSE <<>>)
                    \o Attribution
    /\ markerPc' = "done"

MarkerFrame ==
    /\ UNCHANGED <<tileArgs, tileFetches, tileSettled, markerArgs>>
    /\ UNCHANGED <<cvars, lvars, pvars, svars, hvars, qvars>>

\* the tiles are drawn; marker and anchor are looked up in the configuration
SelectMarker ==
    /\ markerPc = "idle"
    /\ IF BothSelected
       THEN /\ markerPc' = "stat"
            /\ UNCHANGED canvas
       ELSE FinishMarker(FALSE, Null)
    /\ UNCHANGED markerImageCache
    /\ MarkerFrame

\* loadMarkerImage after "await Bun.file(file)": the cached image, or the
\* file is read (SVG) or decoded (other)
StatDone ==
    /\ markerPc = "stat"
    /\ IF MarkerImage(SelectedMarker.file) \in markerImageCache
       THEN FinishMarker(TRUE, MarkerImage(SelectedMarker.file))
       ELSE /\ markerPc' = IF IsSvg(SelectedMarker.file) THEN "read" ELSE "load"
            /\ UNCHANGED canvas
    /\ UNCHANGED markerImageCache
    /\ MarkerFrame

\* Bun.file(file).arrayBuffer() settles
SvgRead(ok) ==
    /\ markerPc = "read"
    /\ IF ok
       THEN /\ markerPc' = "raster"
            /\ UNCHANGED canvas
       ELSE FinishMarker(FALSE, Null)
    /\ UNCHANGED markerImageCache
    /\ MarkerFrame

\* sharp(...).trim().png().toBuffer() settles
SvgRasterised(ok) ==
    /\ markerPc = "raster"
    /\ IF ok
       THEN /\ markerPc' = "load"
            /\ UNCHANGED canvas
       ELSE FinishMarker(FALSE, Null)
    /\ UNCHANGED markerImageCache
    /\ MarkerFrame

\* loadImage settles
MarkerLoaded(ok) ==
    /\ markerPc = "load"
    /\ IF ok
       THEN /\ markerImageCache' = markerImageCache \cup {MarkerImage(SelectedMarker.file)}
            /\ FinishMarker(TRUE, MarkerImage(SelectedMarker.file))
       ELSE /\ UNCHANGED markerImageCache
            /\ FinishMarker(FALSE, Null)
    /\ MarkerFrame

\* the next composition of the process: the image cache is kept
NextComposition(args) ==
    /\ markerPc = "done"
    /\ markerArgs' = args
    /\ canvas' = <<[op |-> "tiles"]>>
    /\ markerPc' = "idle"
    /\ UNCHANGED <<tileArgs, tileFetches, tileSettled, markerImageCache>>
    /\ UNCHANGED <<cvars, lvars, pvars, svars, hvars, qvars>>

MarkerNext ==
    \/ SelectMarker
    \/ StatDone
    \/ \E ok \in BOOLEAN : SvgRead(ok)
    \/ \E ok \in BOOLEAN : SvgRasterised(ok)
    \/ \E ok \in BOOLEAN : MarkerLoaded(ok)
    \/ \E args \in MarkerInputs : NextComposition(args)

SpecMarker == MarkerInit /\ [][MarkerNext]_vars

(***************************************************************************)
(* GET /map: the query parameters are validated, then handleMapRequest     *)
(***************************************************************************)
minZoom == 0

maxZoom == 20

defaultMarker == <<"p">>

defaultAnchor == <<"c">>

RECURSIVE TrimStart(_)
TrimStart(s) == IF s # <<>> /\ Head(s) = " " THEN TrimStart(Tail(s)) ELSE s

RECURSIVE TrimEnd(_)
TrimEnd(s) ==
    IF s # <<>> /\ s[Len(s)] = " " THEN TrimEnd(SubSeq(s, 1, Len(s) - 1)) ELSE s

\* String.prototype.trim, the white space being spaces
Trim(s) == TrimEnd(TrimStart(s))

IsDigit(c) == \E i \in 1..10 : DigitChars[i] = c

DigitValue(c) == (CHOOSE i \in 1..10 : DigitChars[i] = c) - 1

\* the longest prefix of s made of digits
RECURSIVE LeadingDigits(_)
LeadingDigits(s) ==
    IF s # <<>> /\ IsDigit(Head(s)) THEN <<Head(s)>> \o LeadingDigits(Tail(s)) ELSE <<>>

RECURSIVE DigitsValue(_)
DigitsValue(ds) ==
    IF ds = <<>>
    THEN 0
    ELSE 10 * DigitsValue(SubSeq(ds, 1, Len(ds) - 1)) + DigitValue(ds[Len(ds)])

\* a fraction's digits without its trailing zeros
RECURSIVE StripZeros(_)
StripZeros(ds) ==
    IF ds # <<>> /\ ds[Len(ds)] = "0" THEN StripZeros(SubSeq(ds, 1, Len(ds) - 1)) ELSE ds

NaN == [nan |-> TRUE, neg |-> FALSE, whole |-> 0, frac |-> <<>>]

\* the sign and the rest of a string whose leading white space is skipped
Signed(s) ==
    LET t == TrimStart(s)
    IN  IF t # <<>> /\ Head(t) \in {"-", "+"}
        THEN [neg |-> Head(t) = "-", rest |-> Tail(t)]
        ELSE [neg |-> FALSE, rest |-> t]

\* parseInt(value, 10): leading white space, a sign, then digits as far as
\* they go; what follows is ignored, and no digit gives NaN
parseInt(s) ==
    LET ds == LeadingDigits(Signed(s).rest)
    IN  IF ds = <<>>
        THEN NaN
        ELSE [nan |-> FALSE, neg |-> Signed(s).neg, whole |-> DigitsValue(ds), frac |-> <<>>]

\* parseFloat(value) on strings without exponent or "Infinity": leading
\* white space, a sign, digits, then a point and digits, as far as they go;
\* what follows is ignored, and no digit gives NaN
parseFloat(s) ==
    LET u    == Signed(s).rest
        ds   == LeadingDigits(u)
        v    == SubSeq(u, Len(ds) + 1, Len(u))
        fs   == IF v # <<>> /\ Head(v) = "." THEN LeadingDigits(Tail(v)) ELSE <<>>
    IN  IF ds = <<>> /\ fs = <<>>
        THEN NaN
        ELSE [nan |-> FALSE, neg |-> Signed(s).neg, whole |-> DigitsValue(ds),
              frac |-> StripZeros(fs)]

\* num < min, for an integer min
Below(num, min) ==
    LET m == IF num.neg THEN -num.whole ELSE num.whole
    IN  m < min \/ (m = min /\ num.neg /\ num.frac # <<>>)

\* num > max, for an integer max
Above(num, max) ==
    LET m == IF num.neg THEN -num.whole ELSE num.whole
    IN  m > max \/ (m = max /\ ~num.neg /\ num.frac # <<>>)

Invalid(kind) == [valid |-> FALSE, value |-> NaN, error |-> kind]

\* "!value || value.trim() === ''"
Blank(value) == ~value.defined \/ Trim(value.chars) = <<>>

validateNumber(value, min, max) ==
    IF Blank(value)
    THEN Invalid("required")
    ELSE LET num == parseFloat(value.chars)
         IN  IF num.nan
             THEN Invalid("number")
             ELSE IF Below(num, min) \/ Above(num, max)
                  THEN Invalid("range")
                  ELSE [valid |-> TRUE, value |-> num, error |-> "none"]

\* Number.isInteger holds of every number parseInt gives
validateInteger(value, min, max) ==
    IF Blank(value)
    THEN Invalid("required")
    ELSE LET num == parseInt(value.chars)
         IN  IF num.nan
             THEN Invalid("integer")
             ELSE IF Below(num, min) \/ Above(num, max)
                  THEN Invalid("range")
                  ELSE [valid |-> TRUE, value |-> num, error |-> "none"]

\* a number without fraction, as an integer
IntOf(num) == IF num.neg THEN -num.whole ELSE num.whole

\* "scaleValidation.valid && scaleValidation.value ? scaleValidation.value : 1"
ScaleOf(value) ==
    LET v == validateInteger(value, 1, 4)
    IN  IF v.valid /\ IntOf(v.value) # 0 THEN IntOf(v.value) ELSE 1

\* url.searchParams.get(name)?.trim()
TrimmedParam(value) == IF value.defined THEN Str(Trim(value.chars)) ELSE Undefined

Truthy(v) == v.defined /\ v.chars # <<>>

\* "markerParam || defaultMarker"
MarkerNameOf(markerParam) ==
    IF Truthy(markerParam) THEN markerParam.chars ELSE defaultMarker

\* "availableMarkers.some(m => m.name === markerParam)", if markerParam is given
MarkerExists(markerParam) ==
    Truthy(markerParam) => \E m \in ConfigMarkers : m.name = markerParam.chars

\* user-provided -> config default, the marker's default left out
AnchorNameOf_ConfigDefault(markerParam, anchorParam) ==
    IF Truthy(anchorParam) THEN anchorParam.chars ELSE defaultAnchor

\* user-provided -> marker's default -> config default
AnchorNameOf(markerParam, anchorParam) ==
    IF Truthy(anchorParam)
    THEN anchorParam.chars
    ELSE IF \E m \in ConfigMarkers :
                m.name = MarkerNameOf(markerParam) /\ m.anchor # <<>>
         THEN (CHOOSE m \in ConfigMarkers : m.name = MarkerNameOf(markerParam)).anchor
         ELSE defaultAnchor

AnchorValid(anchorName) == \E a \in ConfigAnchors : a.name = anchorName

\* "name || undefined"
OrUndefined(name) == IF name = <<>> THEN Undefined ELSE Str(name)

\* the query strings of the requests: absent, blank, not numeric, numeric
\* with something after the number, in and out of range
LatParams ==
    {Undefined, Str(<<>>), Str(<<" ">>), Str(<<"a", "b">>), Str(<<"4", "5">>),
     Str(<<" ", "4", "5">>), Str(<<"4", "5", "a", "b">>), Str(<<"9", "1">>),
     Str(<<"-", "9", "1">>), Str(<<"9", "0", ".", "5">>), Str(<<"-", "9", "0">>)}

LonParams == {Undefined, Str(<<"4">>), Str(<<"1", "8", "1">>), Str(<<"4", "x">>)}

ZoomParams ==
    {Undefined, Str(<<"1", "2">>), Str(<<"2", "1">>), Str(<<"-", "1">>),
     Str(<<"1", "2", ".", "7">>), Str(<<"x">>), Str(<<"0">>)}

ScaleParams ==
    {Undefined, Str(<<"2">>), Str(<<"9">>), Str(<<"0">>), Str(<<"2", ".", "5">>)}

MarkerParams == {Undefined, Str(<<"p">>), Str(<<" ", "s", " ">>), Str(<<"q">>)}

AnchorParams == {Undefined, Str(<<"c">>), Str(<<"x">>), Str(<<" ">>)}

Queries ==
    [lat : LatParams, lon : LonParams, zoom : ZoomParams, scale : ScaleParams,
     marker : MarkerParams, anchor : AnchorParams]

BadRequest(parameter, kind) ==
    [status |-> 400, image |-> NoImage, error |-> <<parameter, kind>>]

\* a request with its query has arrived and nothing of it has run
ValidateInit ==
    /\ FetcherIdle /\ ServerIdle /\ HashIdle /\ TilesIdle
    /\ query \in Queries
    /\ verdict = <<>>

\* the fetch handler of Bun.serve for GET /map, up to its first await: the
\* first parameter that is not valid is answered with 400, else
\* handleMapRequest computes the hash and awaits file.exists()
MapRoute(r) ==
    LET latValidation  == validateNumber(query.lat, -90, 90)
        lonValidation  == validateNumber(query.lon, -180, 180)
        zoomValidation == validateInteger(query.zoom, minZoom, maxZoom)
        markerParam    == TrimmedParam(query.marker)
        anchorParam    == TrimmedParam(query.anchor)
        anchorName     == AnchorNameOf(markerParam, anchorParam)
        answer ==
            IF ~latValidation.valid THEN BadRequest("latitude", latValidation.error)
            ELSE IF ~lonValidation.valid THEN BadRequest("longitude", lonValidation.error)
            ELSE IF ~zoomValidation.valid THEN BadRequest("zoom", zoomValidation.error)
            ELSE IF ~MarkerExists(markerParam) THEN BadRequest("marker", "unknown")
            ELSE IF ~AnchorValid(anchorName) THEN BadRequest("anchor", "unknown")
            ELSE <<>>
        t == [zoom |-> IntOf(zoomValidation.value), lat |-> IntOf(latValidation.value),
              lon |-> IntOf(lonValidation.value),
              marker |-> OrUndefined(MarkerNameOf(markerParam)),
              anchor |-> OrUndefined(anchorName), scale |-> ScaleOf(query.scale)]
    IN  /\ rpc[r] = "idle"
        /\ verdict = <<>>
        /\ IF answer # <<>>
           THEN /\ verdict' = answer.error
                /\ rpc' = [rpc EXCEPT ![r] = "responded"]
                /\ response' = [response EXCEPT ![r] = answer]
                /\ UNCHANGED <<rparams, rhash>>
           ELSE /\ verdict' = <<"valid">>
                /\ rparams' = [rparams EXCEPT ![r] = t]
                /\ rhash' = [rhash EXCEPT ![r] =
                                generateHash(t.zoom, t.lat, t.lon, t.marker, t.anchor)]
                /\ rpc' = [rpc EXCEPT ![r] = "exists"]
                /\ UNCHANGED response
        /\ UNCHANGED <<disk, rtiles, rlog, query>>
        /\ UNCHANGED <<cvars, lvars, pvars, hvars, tvars>>

ValidateNext ==
    \/ MapRoute(1)
    \/ ExistsDone(1)
    \/ \E outcome \in {"ok", "failed"} : TileSettled(1, outcome)
    \/ \E ok \in BOOLEAN : Encoded(1, ok)
    \/ \E ok \in BOOLEAN : WriteDone(1, ok)
    \/ \E ok \in BOOLEAN : SendFile(1, ok)

SpecValidate == ValidateInit /\ [][ValidateNext]_vars

(***************************************************************************)
(* Claims about TileCache, checked under SpecCache                         *)
(***************************************************************************)
IsSet(i) == hist[i].op = "set"

DistinctKeys(n) == \A i, j \in 1..n : i # j => hist[i].key # hist[j].key

\* C6: after any sequence of get, set and clear the number of stored
\* entries is at most maxSize.
C6_SizeAtMostMaxSize == Size(cache) <= maxSize

\* C7: from an empty cache with maxSize >= 1, maxSize + 1 sets of distinct
\* keys and no get leave exactly maxSize entries: only the first-inserted key
\* is evicted and every other inserted key is still present.
C7_OverflowEvictsFirstInserted ==
    (/\ maxSize >= 1
     /\ Len(hist) = maxSize + 1
     /\ \A i \in 1..Len(hist) : IsSet(i)
     /\ DistinctKeys(Len(hist)))
    => /\ Size(cache) = maxSize
       /\ hist[1].key \notin MapKeys(cache)
       /\ \A i \in 2..Len(hist) : hist[i].key \in MapKeys(cache)

C7_Witness ==
    /\ maxSize = MaxCap
    /\ Len(hist) = maxSize + 1
    /\ \A i \in 1..Len(hist) : IsSet(i)
    /\ DistinctKeys(Len(hist))
    /\ Size(cache) = maxSize

\* C8: eviction is strict LRU by insertion and access recency: when the cache
\* is full, the oldest-inserted key is read with a successful get and a new
\* key is then inserted, the key that was read is still present and the least
\* recently used other key is the one evicted.
C8_GetRefreshesRecency ==
    (/\ maxSize >= 2
     /\ Len(hist) = maxSize + 2
     /\ now <= Ttl
     /\ \A i \in 1..maxSize : IsSet(i)
     /\ hist[maxSize + 1] = [op |-> "get", key |-> hist[1].key]
     /\ IsSet(maxSize + 2)
     /\ DistinctKeys(maxSize) /\ \A i \in 1..maxSize : hist[i].key # hist[maxSize + 2].key)
    => /\ hist[1].key \in MapKeys(cache)
       /\ hist[2].key \notin MapKeys(cache)

\* C9: set on a key that is already present, with the cache at capacity,
\* evicts no other entry: the stored keys are unchanged, the key's bytes and
\* timestamp are replaced and the key becomes the most recently inserted.
C9_OverwriteEvictsNothing ==
    [][(/\ call'.op = "set"
        /\ hist' = Append(hist, [op |-> "set", key |-> call'.key])
        /\ MapHas(cache, call'.key)
        /\ Size(cache) >= maxSize)
       => /\ MapKeys(cache') = MapKeys(cache)
          /\ Len(cache') = Len(cache)
          /\ cache'[Len(cache')] =
                [key |-> call'.key, buffer |-> call'.buffer, timestamp |-> now]
          /\ \A k \in MapKeys(cache) \ {call'.key} : MapGet(cache', k) = MapGet(cache, k)]_vars

C9_Witness ==
    /\ maxSize = 2
    /\ Len(hist) = 3
    /\ \A i \in 1..3 : IsSet(i)
    /\ hist[3].key = hist[1].key
    /\ hist[2].key # hist[1].key
    /\ Size(cache) = 2
    /\ cache[2].key = hist[1].key
    /\ cache[2].timestamp > cache[1].timestamp

\* C10: get of an entry whose age exceeds the ttl returns absent and removes
\* that entry; an entry whose age does not exceed the ttl is returned; an
\* entry leaves the cache only by such a get, by a set or by clear, never
\* because time passes, so an expired entry counts in size until accessed.
C10_LazyTtl ==
    [][/\ \A k \in MapKeys(cache) :
            (call'.op = "get" /\ call'.key = k /\ hist' = Append(hist, [op |-> "get", key |-> k]))
            => IF now - MapGet(cache, k).timestamp > Ttl
               THEN call'.ret = Null /\ cache' = MapDelete(cache, k)
               ELSE call'.ret = MapGet(cache, k).buffer /\ cache' = cache
       /\ now' # now => cache' = cache
       /\ \A k \in MapKeys(cache) \ MapKeys(cache') :
            \/ call'.op \in {"set", "clear"}
            \/ call'.op = "get" /\ call'.key = k /\ now - MapGet(cache, k).timestamp > Ttl]_vars

C10_Witness ==
    /\ maxSize >= 1
    /\ Len(hist) = 2
    /\ IsSet(1)
    /\ hist[2] = [op |-> "get", key |-> hist[1].key]
    /\ call.op = "get" /\ call.ret = Null
    /\ now > Ttl
    /\ cache = <<>>

(***************************************************************************)
(* Claims about the rate limiter, checked under Spec                       *)
(***************************************************************************)
\* the calls inside execute between activeRequests++ and activeRequests--
InFlight == {p \in Callers : pc[p] \in {"fetching", "backoff", "settled"}}

\* C1: however many fetchTile calls miss the cache and call execute at the
\* same time, the number of upstream fetches running inside execute never
\* exceeds maxConcurrent.
C1_InFlightAtMostMaxConcurrent == Cardinality(InFlight) <= maxConcurrent

\* C2: the times at which two successive requests are dispatched (waitForSlot
\* sets lastRequestTime and returns) are never closer together than minDelay.
C2_DispatchSpacing ==
    \A i \in 1..(Len(dispatched) - 1) : dispatched[i + 1] - dispatched[i] >= minDelay

(***************************************************************************)
(* Claims about fetchWithRetry, checked under SpecRetry                    *)
(***************************************************************************)
Retryable == {"timeout", "5xx", "neterr"}

Ended(p) == pc[p] \in {"settled", "released", "done", "failed"}

StatusesOf(p) == [i \in 1..Len(outcomes[p]) |-> outcomes[p][i].status]

\* C3: when the upstream answers with a client error (400..499),
\* fetchWithRetry makes exactly one network attempt, sleeps no backoff and
\* surfaces the error immediately.
C3_ClientErrorNotRetried ==
    \A p \in Callers :
        (Len(outcomes[p]) >= 1 /\ outcomes[p][1].status = "4xx")
        => /\ Len(outcomes[p]) = 1
           /\ slept[p] = <<>>
           /\ Ended(p)
           /\ result[p] = [kind |-> "error", error |-> "4xx"]

RECURSIVE FailedAmong(_, _)
FailedAmong(p, k) ==
    IF k = 0 THEN 0
    ELSE FailedAmong(p, k - 1) + (IF outcomes[p][k].status = "ok" THEN 0 ELSE 1)

\* C5: a fetch that fails with 5xx twice and succeeds on the third attempt
\* returns the third attempt's bytes, having slept baseDelay * 2^0 and then
\* baseDelay * 2^1; no backoff is slept after a successful attempt or after
\* the last allowed attempt.
C5_BackoffSchedule ==
    \A p \in Callers :
        /\ StatusesOf(p) = <<"5xx", "5xx", "ok">>
           => /\ result[p] = [kind |-> "ok", buffer |-> outcomes[p][3].body]
              /\ slept[p] = <<baseDelay, 2 * baseDelay>>
        /\ Len(slept[p]) = FailedAmong(p, IF Len(outcomes[p]) < maxRetries
                                          THEN Len(outcomes[p]) ELSE maxRetries - 1)
        /\ \A i \in 1..Len(slept[p]) : slept[p][i] = baseDelay * 2 ^ (i - 1)
        /\ pc[p] = "backoff"
           => /\ outcomes[p][Len(outcomes[p])].status # "ok"
              /\ Len(outcomes[p]) < maxRetries

C5_Witness ==
    /\ pc[1] = "done"
    /\ StatusesOf(1) = <<"5xx", "5xx", "ok">>
    /\ slept[1] = <<baseDelay, 2 * baseDelay>>
    /\ now >= minDelay + 3 * baseDelay

(***************************************************************************)
(* Claims about fetchTile and the memory cache, checked under Spec         *)
(***************************************************************************)
\* the cache holds an entry for the coordinate that has not outlived the ttl
LiveEntry(co, t) ==
    /\ MapHas(cache, getCacheKey(co[1], co[2], co[3]))
    /\ t - MapGet(cache, getCacheKey(co[1], co[2], co[3])).timestamp <= Ttl

\* the call of p starts in this step
Called(p) == pc[p] = "idle" /\ pc'[p] # "idle"

\* C11: fetchTile on a coordinate with a live cache entry returns the cached
\* bytes in the same step: nothing is queued, no spacing timer is started,
\* activeRequests and lastRequestTime are unchanged, and neither then nor
\* later does the call make an upstream attempt.
C11_CacheHitBypassesLimiter ==
    [][\A p \in Callers :
        /\ (Called(p) /\ LiveEntry(coord'[p], now))
           => /\ pc'[p] = "done"
              /\ result'[p] =
                    [kind |-> "ok",
                     buffer |-> MapGet(cache, getCacheKey(coord'[p][1], coord'[p][2],
                                                          coord'[p][3])).buffer]
              /\ activeRequests' = activeRequests
              /\ queue' = queue
              /\ lastRequestTime' = lastRequestTime
              /\ dispatched' = dispatched
              /\ wake' = wake
              /\ outcomes'[p] = <<>>
        /\ (pc[p] = "done" /\ outcomes[p] = <<>>)
           => /\ pc'[p] = "done"
              /\ outcomes'[p] = <<>>
              /\ result'[p] = result[p]]_vars

C11_Witness ==
    \E p \in Callers :
        /\ pc[p] = "done"
        /\ outcomes[p] = <<>>
        /\ activeRequests >= 1
        /\ \E q \in Callers : pc[q] = "fetching" /\ coord[q] # coord[p]

\* C12: when a call that fetched from the upstream returns, the cache holds
\* the bytes it returns under its (zoom, x, y), stamped with the current
\* time; a call made later for a coordinate whose entry is still stored and
\* not expired returns the stored bytes without an upstream attempt.
C12_StoredBeforeReturned ==
    [][\A p \in Callers :
        /\ (pc[p] = "released" /\ pc'[p] = "done")
           => /\ outcomes[p][Len(outcomes[p])] = [status |-> "ok", body |-> result'[p].buffer]
              /\ MapHas(cache', getCacheKey(coord[p][1], coord[p][2], coord[p][3]))
              /\ MapGet(cache', getCacheKey(coord[p][1], coord[p][2], coord[p][3])) =
                    [key |-> getCacheKey(coord[p][1], coord[p][2], coord[p][3]),
                     buffer |-> result'[p].buffer,
                     timestamp |-> now]
        /\ (/\ Called(p)
            /\ LiveEntry(coord'[p], now)
            /\ \E q \in Callers : /\ pc[q] = "done"
                                  /\ outcomes[q] # <<>>
                                  /\ coord[q] = coord'[p])
           => /\ pc'[p] = "done"
              /\ outcomes'[p] = <<>>
              /\ result'[p].buffer =
                    MapGet(cache, getCacheKey(coord'[p][1], coord'[p][2],
                                              coord'[p][3])).buffer]_vars

C12_Witness ==
    \E p, q \in Callers :
        /\ p # q
        /\ pc[q] = "done" /\ Len(outcomes[q]) >= 1
        /\ pc[p] = "done" /\ outcomes[p] = <<>>
        /\ coord[p] = coord[q]
        /\ result[p] = result[q]

(***************************************************************************)
(* Claims about the /map handler and the disk cache, checked under         *)
(* SpecServer                                                              *)
(***************************************************************************)
Logged(r, event) == \E i \in 1..Len(rlog[r]) : rlog[r][i] = event

Answered(r) == rpc[r] = "responded"

Succeeded(r) == Answered(r) /\ response[r].status = 200

\* C13: when one of the four tile fetches of a composition has failed, the
\* request is over with the 500 response, which carries no image, and the
\* request has written nothing to the disk cache.
C13_TileFailureFailsRequest ==
    \A r \in Requests :
        (\E i \in 1..Len(rtiles[r]) : rtiles[r][i] = "failed")
        => /\ Answered(r)
           /\ response[r] = [status |-> 500, image |-> NoImage, error |-> "tile"]
           /\ ~Logged(r, "write") /\ ~Logged(r, "writefail")
           /\ ~DiskHas(disk, rhash[r]) \/ \E q \in Requests \ {r} : Logged(q, "write")

C13_Witness ==
    \E r \in Requests :
        /\ rtiles[r] = <<"ok", "ok", "ok", "failed">>
        /\ response[r].status = 500
        /\ disk = {}

\* C14: once a request has been answered with its image, a request with the
\* same parameters whose existence check resolves later is served the file:
\* it starts no tile fetch and no composition, and what it is answered with
\* is the stored file.
C14_RepeatServedFromDisk ==
    [][\A r \in Requests :
        /\ (/\ rpc[r] = "exists" /\ rpc'[r] # "exists"
            /\ \E q \in Requests \ {r} : Succeeded(q) /\ rparams[q] = rparams[r])
           => /\ rpc'[r] = "serving"
              /\ rtiles'[r] = <<>>
              /\ ~Logged(r, "compose")'
        /\ (rpc[r] = "serving" /\ ~Logged(r, "compose"))
           => /\ rtiles'[r] = <<>>
              /\ rpc'[r] \in {"serving", "responded"}
              /\ ~Logged(r, "compose")'
              /\ Succeeded(r)' => response'[r].image \in DiskRead(disk, rhash[r])]_vars

C14_Witness ==
    \E r, q \in Requests :
        /\ q < r
        /\ rparams[q] = rparams[r]
        /\ Succeeded(q) /\ Logged(q, "compose")
        /\ Succeeded(r) /\ rlog[r] = <<"exists", "response">>
        /\ rtiles[r] = <<>>
        /\ response[r].image = response[q].image

\* C15: a request does things to the disk cache in one order only: the
\* existence check, then either the response (a hit, no write) or the
\* composition, one write once all four tiles are there and the image is
\* encoded, and the response. The file changes in no other step, and the
\* step that writes stores the composed image under the request's digest.
C15_WriteOnceAfterComposition ==
    [][/\ \A r \in Requests :
            /\ rlog'[r] \in {<<>>,
                             <<"exists", "response">>,
                             <<"exists", "response", "readfail">>,
                             <<"exists", "compose">>,
                             <<"exists", "compose", "writefail">>,
                             <<"exists", "compose", "write", "response">>,
                             <<"exists", "compose", "write", "response", "readfail">>}
            /\ (~Logged(r, "write") /\ Logged(r, "write")')
               => /\ rtiles[r] = [i \in 1..NumTiles |-> "ok"]
                  /\ response[r] = <<>>
                  /\ [hash |-> rhash[r], image |-> Compose(rparams[r])] \in disk'
            /\ (response[r] = <<>> /\ response'[r] # <<>> /\ response'[r].status = 200
                    /\ Logged(r, "compose"))
               => Logged(r, "write")
       /\ disk' # disk
          => \E r \in Requests :
                /\ rlog[r] = <<"exists", "compose">>
                /\ Logged(r, "write")'
                /\ disk' = DiskWrite(disk, rhash[r], Compose(rparams[r]))]_vars

C15_Witness ==
    \E r, q \in Requests :
        /\ rlog[q] = <<"exists", "compose", "write", "response">>
        /\ Succeeded(q)
        /\ rlog[r] = <<"exists", "response">>
        /\ Succeeded(r)
        /\ Cardinality(disk) = 1

\* C16: a request whose write to the disk cache failed is still answered
\* with status 200 and the image composed for its parameters.
C16_WriteFailureSwallowed ==
    \A r \in Requests :
        (Logged(r, "writefail") /\ Answered(r))
        => /\ response[r].status = 200
           /\ response[r].image = Compose(rparams[r])

\* C17: a request that found its file in the disk cache and could not read it
\* goes on to compose, and is answered with status 200 and the image
\* composed for its parameters.
C17_ReadFailureIsMiss ==
    \A r \in Requests :
        (rlog[r] = <<"exists", "response", "readfail">> /\ Answered(r))
        => /\ rtiles[r] # <<>>
           /\ response[r].status = 200
           /\ response[r].image = Compose(rparams[r])

Residue(a, n) ==
    CHOOSE x \in 0..(n - 1) :
        \E k \in (-Cardinality(TileIndices))..Cardinality(TileIndices) : a = k * n + x

\* C20: each coordinate passed to fetchTile has x and y in 0..2^zoom - 1; x
\* is the tile's horizontal index modulo 2^zoom, and y is the tile's vertical
\* index when that is in range, 0 when it is below and 2^zoom - 1 when it is
\* above.
C20_TileCoordinatesInRange ==
    \A k \in 1..Len(tileFetches) :
        LET n == 2 ^ tileArgs.zoom
            tileX == tileArgs.tileX0 + ((k - 1) % 2)
            tileY == tileArgs.tileY0 + ((k - 1) \div 2)
            x == tileFetches[k][2]
            y == tileFetches[k][3]
        IN  /\ tileFetches[k][1] = tileArgs.zoom
            /\ 0 <= x /\ x <= n - 1
            /\ 0 <= y /\ y <= n - 1
            /\ x = Residue(tileX, n)
            /\ tileY < 0 => y = 0
            /\ tileY > n - 1 => y = n - 1
            /\ (0 <= tileY /\ tileY <= n - 1) => y = tileY

C20_Witness ==
    /\ Len(tileFetches) = NumTiles
    /\ tileArgs.zoom = MaxTileZoom
    /\ tileArgs.tileX0 = -1
    /\ tileArgs.tileY0 = 2 ^ MaxTileZoom - 1
    /\ tileFetches[1] = <<MaxTileZoom, 2 ^ MaxTileZoom - 1, 2 ^ MaxTileZoom - 1>>
    /\ tileFetches[4] = <<MaxTileZoom, 0, 2 ^ MaxTileZoom - 1>>

\* C23: a request that finds no file for its digest composes, also while
\* another request with the same digest is composing; when two requests with
\* the same digest have both composed, written and been answered, both were
\* answered with an image, and the path holds one file, whole, as one of the
\* requests with that digest wrote it.
C23_ConcurrentDuplicatesBothWrite ==
    [][\A r \in Requests :
        /\ (rpc[r] = "exists" /\ rpc'[r] # "exists" /\ ~DiskHas(disk, rhash[r]))
           => rpc'[r] = "composing"
        /\ \A q \in Requests \ {r} :
            (/\ rhash'[r] = rhash'[q]
             /\ rlog'[r] = <<"exists", "compose", "write", "response">>
             /\ rlog'[q] = <<"exists", "compose", "write", "response">>
             /\ Answered(r)' /\ Answered(q)')
            => /\ Succeeded(r)' /\ Succeeded(q)'
               /\ rtiles'[r] = [i \in 1..NumTiles |-> "ok"]
               /\ rtiles'[q] = [i \in 1..NumTiles |-> "ok"]
               /\ Cardinality(DiskRead(disk', rhash'[r])) = 1
               /\ DiskRead(disk', rhash'[r]) \subseteq
                    {Compose(rparams'[x]) :
                        x \in {y \in Requests : rhash'[y] = rhash'[r] /\ Logged(y, "write")'}}]_vars

C23_Witness ==
    \E r, q \in Requests :
        /\ r # q
        /\ rparams[r] = rparams[q]
        /\ rlog[r] = <<"exists", "compose", "write", "response">>
        /\ rlog[q] = <<"exists", "compose", "write", "response">>
        /\ Succeeded(r) /\ Succeeded(q)
        /\ DiskRead(disk, rhash[r]) = {Compose(rparams[r])}

(***************************************************************************)
(* Claims about the drawing of the tiles, checked under SpecDraw           *)
(***************************************************************************)
\* C24: nothing is drawn before all four tile fetches have resolved; what is
\* drawn is the four tiles in row and column order, each at its column and
\* row times tileSize less the offset, whatever the order in which the
\* fetches resolved: the drawing is determined by the request alone.
C24_DrawingAfterJoinInFixedOrder ==
    canvas # <<>>
    => /\ Len(tileSettled) = NumTiles
       /\ \A i \in 1..NumTiles : tileSettled[i].outcome = "ok"
       /\ Len(canvas) = NumTiles
       /\ \A row \in 0..1, col \in 0..1 :
            canvas[2 * row + col + 1] =
                [image |-> TileImage(<<tileArgs.zoom,
                                       Residue(tileArgs.tileX0 + col, 2 ^ tileArgs.zoom),
                                       ClampY(tileArgs.tileY0 + row, 2 ^ tileArgs.zoom)>>),
                 drawX |-> col * tileSize - tileArgs.offsetX,
                 drawY |-> row * tileSize - tileArgs.offsetY]

C24_Witness ==
    /\ canvas # <<>>
    /\ [i \in 1..NumTiles |-> tileSettled[i].tile] = <<4, 2, 3, 1>>
    /\ tileArgs.zoom = 1
    /\ canvas[1].image # canvas[2].image

(***************************************************************************)
(* Claims about the marker, checked under SpecMarker                       *)
(***************************************************************************)
Drawn(kind) == \E i \in 1..Len(canvas) : canvas[i].op = kind

\* C21: a marker asset that cannot be read, rasterised or decoded never
\* fails the composition: every step of the marker part leads on to the
\* finished image, and a finished image holds exactly one of the image
\* marker and the vector marker (circle, border and cross), the vector
\* marker whenever the marker or the anchor is not resolved or the load
\* failed.
C21_MarkerFallback ==
    /\ markerPc \in {"idle", "stat", "read", "raster", "load", "done"}
    /\ markerPc # "done" => ~Drawn("image") /\ ~Drawn("circle")
    /\ markerPc = "done"
       => /\ Drawn("image") # Drawn("circle")
          /\ Drawn("circle") = Drawn("border")
          /\ Drawn("circle") = Drawn("cross")
          /\ Cardinality({i \in 1..Len(canvas) : canvas[i].op \in {"image", "circle"}}) = 1
          /\ ~BothSelected => Drawn("circle")
          /\ Drawn("image")
             => \E i \in 1..Len(canvas) :
                    /\ canvas[i].op = "image"
                    /\ canvas[i].file = SelectedMarker.file
                    /\ MarkerImage(SelectedMarker.file) \in markerImageCache
          /\ canvas[Len(canvas)].op = "attribution"

\* the SVG marker with a resolved anchor, its load failed: vector marker drawn
C21_Witness ==
    /\ markerPc = "done"
    /\ BothSelected
    /\ IsSvg(SelectedMarker.file)
    /\ Drawn("circle") /\ ~Drawn("image")
    /\ MarkerImage(<<"p", ".", "p", "n", "g">>) \in markerImageCache

(***************************************************************************)
(* Claims about the validation of GET /map, checked under SpecValidate     *)
(***************************************************************************)
\* a decimal numeral: an optional sign, digits, an optional point and
\* digits, and nothing else
IsNumeral(s) ==
    LET u  == IF s # <<>> /\ Head(s) \in {"-", "+"} THEN Tail(s) ELSE s
        ds == LeadingDigits(u)
        v  == SubSeq(u, Len(ds) + 1, Len(u))
    IN  /\ ds # <<>>
        /\ \/ v = <<>>
           \/ /\ Head(v) = "."
              /\ Len(v) > 1
              /\ LeadingDigits(Tail(v)) = Tail(v)

\* the parameter is missing, not a number, or outside min..max
Unacceptable(value, min, max) ==
    \/ Blank(value)
    \/ ~IsNumeral(Trim(value.chars))
    \/ Below(parseFloat(value.chars), min)
    \/ Above(parseFloat(value.chars), max)

\* C25: a request whose lat, lon or zoom is missing, not a number or out of
\* range is answered 400 with the error of the first such parameter in the
\* order lat, lon, zoom, and it looks up, composes and writes nothing.
C25_InvalidRejected ==
    LET bad == <<Unacceptable(query.lat, -90, 90), Unacceptable(query.lon, -180, 180),
                 Unacceptable(query.zoom, minZoom, maxZoom)>>
        names == <<"latitude", "longitude", "zoom">>
    IN  (verdict # <<>> /\ \E i \in 1..3 : bad[i])
        => /\ response[1] # <<>>
           /\ response[1].status = 400
           /\ response[1].error[1] = names[CHOOSE i \in 1..3 : bad[i] /\ \A j \in 1..(i - 1) : ~bad[j]]
           /\ rlog[1] = <<>>
           /\ rtiles[1] = <<>>
           /\ disk = {}

(***************************************************************************)
(* Claims about the tile fetches of a composition, checked under SpecBatch *)
(***************************************************************************)
\* the calls that have sent a request for coordinate co to the upstream
Requested(co) ==
    {p \in BatchCallers : coord[p] = co /\ (pc[p] = "fetching" \/ outcomes[p] # <<>>)}

\* C22: in a composition whose attempts all succeed, each distinct tile
\* coordinate is requested from the upstream at most once, also when
\* several of the four positions wrap or clamp to the same coordinate.
C22_EachTileRequestedOnce ==
    \A p \in BatchCallers :
        pc[p] # "idle"
        => /\ Cardinality(Requested(coord[p])) <= 1
           /\ Len(outcomes[p]) <= 1

(***************************************************************************)
(* Claims about the rate limiter's queue, checked under SpecQueue and,     *)
(* with a call that uses up its attempts, under SpecHold                   *)
(***************************************************************************)
Woken(p) == pc[p] # "resumed" /\ pc'[p] = "resumed"

\* C26: a call that finds the in-flight count at the cap is put at the end
\* of the queue and waits; a step that wakes a waiter wakes the one at the
\* head of the queue, which queued before all the others in it, and no
\* other; the queue changes in no other way.
C26_QueueIsFifo ==
    [][/\ \A p \in QueueCallers :
            (pc[p] = "idle" /\ pc'[p] # "idle" /\ AtMaxConcurrent(activeRequests, maxConcurrent))
            => /\ pc'[p] = "queued"
               /\ queue' = Append(queue, p)
       /\ \A p \in QueueCallers :
            Woken(p)
            => /\ queue # <<>>
               /\ p = Head(queue)
               /\ queue' = Tail(queue)
               /\ \A q \in QueueCallers \ {p} : ~Woken(q)
       /\ \/ queue' = queue
          \/ \E p \in QueueCallers : queue' = Append(queue, p) /\ pc'[p] = "queued"
          \/ queue # <<>> /\ queue' = Tail(queue) /\ Woken(Head(queue))
       /\ \A p \in QueueCallers :
            (pc'[p] = "queued") = (\E i \in 1..Len(queue') : queue'[i] = p)]_vars

\* two calls are waiting and the one that queued first is woken
C26_Witness ==
    /\ Len(queue) = 1
    /\ queue[1] = maxConcurrent + 2
    /\ pc[maxConcurrent + 1] = "resumed"

\* the calls inside execute between activeRequests++ and activeRequests--
Holding == {p \in DOMAIN pc : pc[p] \in {"fetching", "backoff", "settled"}}

\* the calls that were let past the queue and have not yet taken their slot
Pending == {p \in DOMAIN pc : pc[p] \in {"resumed", "spacing", "admitted"}}

\* C27: the queue is never left behind: whenever a call waits in the queue,
\* some call holds a slot (its end will run processQueue) or some call is
\* on its way to one; and the end of a call that leaves the in-flight count
\* below the cap wakes the head of the queue.
C27_QueueNeverStuck ==
    [][/\ queue' # <<>> => Holding' # {} \/ Pending' # {}
       /\ \A p \in DOMAIN pc :
            (pc[p] = "settled" /\ pc'[p] = "released" /\ queue # <<>>
                /\ Cardinality(Holding) <= maxConcurrent)
            => pc'[Head(queue)] = "resumed" /\ queue' = Tail(queue)]_vars

\* the first call has used up its attempts; its end wakes the call that
\* was waiting in the queue
C27_Witness ==
    /\ pc[1] = "released"
    /\ result[1].kind = "error"
    /\ Len(outcomes[1]) = maxRetries
    /\ pc[2] = "fetching"
    /\ pc[maxConcurrent + 1] = "resumed"
    /\ queue = <<>>

\* C28: activeRequests is the number of calls that have taken a slot and
\* whose fetch has not ended, and is never negative; it changes only when a
\* call takes its slot (by one up) and when a call's fetch has ended,
\* resolved or rejected (by one down, once per call), and that step runs
\* processQueue.
C28_CounterIsInFlight ==
    [][/\ activeRequests' = Cardinality(Holding')
       /\ activeRequests' >= 0
       /\ \A p \in DOMAIN pc :
            /\ (pc[p] = "admitted" /\ pc'[p] # "admitted")
               => activeRequests' = activeRequests + 1
            /\ (pc[p] = "settled" /\ pc'[p] # "settled")
               => /\ activeRequests' = activeRequests - 1
                  /\ pc'[p] = "released"
                  /\ result[p].kind \in {"ok", "error"}
                  /\ CanWake(queue, activeRequests', maxConcurrent)
                     => pc'[Head(queue)] = "resumed"
            /\ pc[p] \in {"released", "done", "failed"}
               => pc'[p] \in {"released", "done", "failed"}
       /\ activeRequests' # activeRequests
          => \E p \in DOMAIN pc :
                \/ pc[p] = "admitted" /\ pc'[p] # "admitted"
                \/ pc[p] = "settled" /\ pc'[p] = "released"]_vars

\* a call whose fetch was rejected and a call whose fetch resolved have both
\* given their slot back
C28_Witness ==
    /\ pc[1] = "failed" /\ result[1].kind = "error"
    /\ \A p \in DOMAIN pc \ {1} : pc[p] = "done" /\ outcomes[p] # <<>>
    /\ activeRequests = 0

\* C29: a call keeps its slot from its first attempt to its end: the step
\* into a backoff sleep and the step out of it into the next attempt leave
\* activeRequests and the queue as they are, and a call that arrives and
\* misses the cache while maxConcurrent calls hold a slot, those in backoff
\* included, is queued.
C29_SlotHeldThroughBackoff ==
    [][\A p \in QueueCallers :
        /\ ((pc[p] = "fetching" /\ pc'[p] = "backoff")
                \/ (pc[p] = "backoff" /\ pc'[p] # "backoff"))
           => /\ activeRequests' = activeRequests
              /\ queue' = queue
              /\ pc'[p] \in {"backoff", "fetching"}
              /\ p \in Holding'
        /\ pc[p] = "backoff" => activeRequests >= 1
        /\ (pc[p] = "idle" /\ pc'[p] \notin {"idle", "done"}
                /\ Cardinality(Holding) >= maxConcurrent)
           => pc'[p] = "queued"
        /\ attempt'[p] > 0 /\ pc'[p] = "fetching" => Len(outcomes'[p]) = attempt'[p]]_vars

\* a call arrives while one of the two calls holding a slot sleeps its
\* backoff, and is queued
C29_Witness ==
    /\ pc[1] = "backoff"
    /\ pc[2] = "fetching"
    /\ pc[maxConcurrent + 1] = "queued"
    /\ queue = <<maxConcurrent + 1>>

(***************************************************************************)
(* Claims about a failing fetchTile and the cache, checked under SpecWarm  *)
(***************************************************************************)
KeyOf(co) == getCacheKey(co[1], co[2], co[3])

\* the cache holds an entry of this tile that is older than the ttl
ExpiredEntry(co, t) == MapHas(cache, KeyOf(co)) /\ t - MapGet(cache, KeyOf(co)).timestamp > Ttl

\* C30: a fetchTile call that fails leaves the memory cache as it was: its
\* first step removes the entry of its own tile if that entry has expired,
\* and nothing else, and no later step of the call, up to and including the
\* one in which it fails, changes the cache.
C30_FailedFetchKeepsCache ==
    [][\A p \in DOMAIN pc :
        /\ Called(p)
           => cache' = IF ExpiredEntry(coord'[p], now)
                       THEN SelectSeq(cache, LAMBDA e : e.key # KeyOf(coord'[p]))
                       ELSE cache
        /\ (pc[p] \notin {"idle", "done", "failed"} /\ pc'[p] # "done")
           => cache' = cache
        /\ (pc[p] = "released" /\ result[p].kind = "error")
           => pc'[p] \in {"released", "failed"}]_vars

\* the call has failed after maxRetries attempts; the expired entry of its
\* tile is gone and the entry of the other tile is still there
C30_Witness ==
    /\ pc[1] = "failed"
    /\ Len(outcomes[1]) = maxRetries
    /\ now > minDelay + Ttl
    /\ ~MapHas(cache, KeyOf(coord[1]))
    /\ Len(cache) = 1
    /\ cache[1].timestamp = 0

(***************************************************************************)
(* Claims about the order of the TileCache entries, checked under          *)
(* SpecCache                                                               *)
(***************************************************************************)
\* the entries of the Map, first to last, have non-decreasing timestamps
OldestFirst(c) == \A i, j \in 1..Len(c) : i < j => c[i].timestamp <= c[j].timestamp

\* the positions of the entries a set has evicted in this step: their keys
\* are gone and are not the key that was set
EvictedAt ==
    {i \in 1..Len(cache) :
        /\ call'.op = "set"
        /\ Len(hist') = Len(hist) + 1
        /\ cache[i].key # call'.key
        /\ ~MapHas(cache', cache[i].key)}

\* C31: the clock never going back, the entries in eviction order (the
\* Map's order) have non-decreasing timestamps; a set evicts at most one
\* entry, the one with the oldest timestamp, and if that entry has not
\* expired then no entry that stays has.
C31_EvictionOrderIsAgeOrder ==
    [][/\ now' >= now
       /\ OldestFirst(cache')
       /\ Cardinality(EvictedAt) <= 1
       /\ \A i \in EvictedAt :
            /\ i = 1
            /\ \A j \in 1..Len(cache) : cache[i].timestamp <= cache[j].timestamp
            /\ now - cache[i].timestamp <= Ttl
               => \A j \in 1..Len(cache) : now - cache[j].timestamp <= Ttl]_vars

\* a full cache was given a new key at a later time: the older of the two
\* entries went, the other is followed by the new one
C31_Witness ==
    /\ maxSize = MaxCap
    /\ Len(hist) = maxSize + 1
    /\ \A i \in 1..Len(hist) : IsSet(i)
    /\ DistinctKeys(Len(hist))
    /\ Len(cache) = maxSize
    /\ ~MapHas(cache, hist[1].key)
    /\ cache[1].timestamp < cache[Len(cache)].timestamp

(***************************************************************************)
(* generateSingleTileMap: the scale, the corner of the canvas, the draw    *)
(* offsets and the size of the canvas (core/tile.ts 83-130), computed in   *)
(* the arithmetic of Number: binary floating point, round to nearest, ties *)
(* to even.  A Number is written as a count of 1/Fine, and Fine is such    *)
(* that the Numbers just below tileSize lie two counts apart.              *)
(***************************************************************************)
Fine == (2 ^ (MantissaBits + 1)) \div tileSize

\* the distance between neighbouring Numbers of the magnitude of x
RECURSIVE Spacing(_, _)
Spacing(x, s) ==
    IF x < s * 2 ^ MantissaBits /\ -x < s * 2 ^ MantissaBits
    THEN s
    ELSE Spacing(x, 2 * s)

\* the Number an arithmetic result is rounded to
Round(x) ==
    LET s == Spacing(x, 1)
        q == x \div s
        r == x - q * s
    IN  IF 2 * r < s THEN q * s
        ELSE IF 2 * r > s THEN (q + 1) * s
        ELSE IF q % 2 = 0 THEN q * s ELSE (q + 1) * s

\* a quotient cut off towards zero
TileIndex_Truncated(topLeft) ==
    IF topLeft >= 0
    THEN topLeft \div (tileSize * Fine)
    ELSE -((-topLeft) \div (tileSize * Fine))

\* tileX0 = Math.floor(topLeftX / tileSize): the division by a power of two
\* is exact
TileIndex(topLeft) == topLeft \div (tileSize * Fine)

\* offsetX = topLeftX - tileX0 * tileSize: the product is exact, the
\* difference is rounded
DrawOffset(topLeft) == Round(topLeft - TileIndex(topLeft) * tileSize * Fine)

\* drawX = col * tileSize - offsetX
DrawAt(index, offset) == Round(index * tileSize * Fine - offset)

\* Math.round in place of Math.floor
Floor_Nearest(x) == (2 * x + Fine) \div (2 * Fine)

\* Math.floor of a Number, as an integer
Floor(x) == x \div Fine

\* an outputScale that is not given
NoScale == [given |-> FALSE, value |-> 0]

\* scale = Math.max(1, Math.min(4, Math.floor(outputScale ?? 1)))
ScaleUsed(outputScale) ==
    ClampScale(Floor(IF outputScale.given THEN outputScale.value ELSE Fine))

\* corners from half a tile left of the world's edge, a count or three
\* short of a tile's edge, on it and past it
Corners ==
    {Round(c * tileSize * Fine + d) :
        c \in 0..MaxCornerTile,
        d \in {-((tileSize \div 2) * Fine), -3, -1, 0, 1, 100 * Fine}}

\* outputScale: not given, negative, zero, fractions and integers up to
\* beyond 4
ScaleInputs ==
    {NoScale} \cup
    {[given |-> TRUE, value |-> v] :
        v \in {-Fine, 0, Fine \div 2, Fine, Fine + Fine \div 2, 2 * Fine + 1,
               4 * Fine - 1, 4 * Fine, 4 * Fine + 1, 9 * Fine}}

NoCanvas == [created |-> FALSE]

CanvasInit ==
    /\ FetcherIdle /\ ServerIdle /\ HashIdle /\ QueryIdle
    /\ tileArgs \in [topLeftX : Corners, topLeftY : Corners, outputScale : ScaleInputs]
    /\ tileFetches = <<>>
    /\ tileSettled = <<>>
    /\ canvas = NoCanvas
    /\ markerArgs = <<>>
    /\ markerPc = "idle"
    /\ markerImageCache = {}

\* lines 83-100: the scale, the tile indices and offsets of the corner,
\* createCanvas(tileSize * scale, tileSize * scale) and ctx.scale(scale, scale)
CreateCanvas ==
    LET scale == ScaleUsed(tileArgs.outputScale)
    IN  /\ ~canvas.created
        /\ canvas' = [created |-> TRUE,
                      width |-> tileSize * scale,
                      height |-> tileSize * scale,
                      scale |-> scale,
                      tileX0 |-> TileIndex(tileArgs.topLeftX),
                      tileY0 |-> TileIndex(tileArgs.topLeftY),
                      offsetX |-> DrawOffset(tileArgs.topLeftX),
                      offsetY |-> DrawOffset(tileArgs.topLeftY),
                      tiles |-> <<>>]
        /\ UNCHANGED <<tileArgs, tileFetches, tileSettled, markerArgs, markerPc, markerImageCache>>
        /\ UNCHANGED <<cvars, lvars, pvars, svars, hvars, qvars>>

\* lines 102-130 with every fetch fulfilled: ctx.drawImage(image, drawX,
\* drawY) for the four tiles, rows 0..1 by columns 0..1
ComposeTiles ==
    /\ canvas.created
    /\ canvas.tiles = <<>>
    /\ canvas' = [canvas EXCEPT !.tiles =
                      [k \in 1..NumTiles |->
                          [tileX |-> canvas.tileX0 + ColOf(k),
                           tileY |-> canvas.tileY0 + RowOf(k),
                           drawX |-> DrawAt(ColOf(k), canvas.offsetX),
                           drawY |-> DrawAt(RowOf(k), canvas.offsetY)]]]
    /\ UNCHANGED <<tileArgs, tileFetches, tileSettled, markerArgs, markerPc, markerImageCache>>
    /\ UNCHANGED <<cvars, lvars, pvars, svars, hvars, qvars>>

CanvasNext == CreateCanvas \/ ComposeTiles

SpecCanvas == CanvasInit /\ [][CanvasNext]_vars

(***************************************************************************)
(* Claims about the offsets and the canvas, checked under SpecCanvas       *)
(***************************************************************************)
\* the centres of the pixels of a row or column of the logical canvas
Centres == {px * Fine + Fine \div 2 : px \in 0..(tileSize - 1)}

Across(t, x) == t.drawX <= x /\ x < t.drawX + tileSize * Fine

Down(t, y) == t.drawY <= y /\ y < t.drawY + tileSize * Fine

\* every pixel of the logical canvas has its centre inside a drawn tile
Painted(tiles) ==
    \A S \in {{k \in DOMAIN tiles : Across(tiles[k], x)} : x \in Centres} :
        \A y \in Centres : \E k \in S : Down(tiles[k], y)

Composed == canvas.created /\ canvas.tiles # <<>>

\* C32 as stated: for every corner the offsets are at least 0 and less than
\* tileSize, and the four tiles drawn cover every pixel of the logical canvas.
C32_OffsetsBelowTileSize ==
    /\ canvas.created =>
          /\ 0 <= canvas.offsetX /\ canvas.offsetX < tileSize * Fine
          /\ 0 <= canvas.offsetY /\ canvas.offsetY < tileSize * Fine
    /\ Composed => Painted(canvas.tiles)

\* C32: for every corner the offsets are at least 0 and at most tileSize,
\* equal to tileSize only where the corner lies less than the spacing of the
\* Numbers under tileSize before a tile's edge, and the four tiles, drawn at
\* (col * tileSize - offsetX, row * tileSize - offsetY), cover every pixel of
\* the logical canvas.
C32_OffsetsWithinTileSize ==
    /\ canvas.created =>
          /\ 0 <= canvas.offsetX /\ canvas.offsetX <= tileSize * Fine
          /\ 0 <= canvas.offsetY /\ canvas.offsetY <= tileSize * Fine
          /\ canvas.offsetX = tileSize * Fine =>
                 (canvas.tileX0 + 1) * tileSize * Fine - tileArgs.topLeftX < 2
          /\ canvas.offsetY = tileSize * Fine =>
                 (canvas.tileY0 + 1) * tileSize * Fine - tileArgs.topLeftY < 2
    /\ Composed =>
          /\ Painted(canvas.tiles)
          /\ \A k \in 1..NumTiles :
                /\ canvas.tiles[k].drawX = DrawAt(ColOf(k), canvas.offsetX)
                /\ canvas.tiles[k].drawY = DrawAt(RowOf(k), canvas.offsetY)

C32_Witness ==
    /\ Composed
    /\ tileArgs.topLeftX < 0
    /\ canvas.offsetX = tileSize * Fine
    /\ canvas.offsetY = 100 * Fine
    /\ canvas.tiles[1].drawX = -(tileSize * Fine)
    /\ canvas.tiles[2].drawX = 0

\* C33: for every outputScale that is a number, the scale used is an integer
\* from 1 to 4: the floor of outputScale where that lies from 1 to 4, 1 where
\* it is smaller, 4 where it is larger, and 1 where outputScale is not given;
\* the canvas is tileSize * scale pixels wide and as many high.
C33_ScaleFlooredAndClamped ==
    canvas.created =>
        LET o == tileArgs.outputScale
            v == IF o.given THEN o.value ELSE Fine
        IN  /\ canvas.scale \in 1..4
            /\ ~o.given => canvas.scale = 1
            /\ v < Fine => canvas.scale = 1
            /\ v >= 4 * Fine => canvas.scale = 4
            /\ (Fine <= v /\ v < 4 * Fine) =>
                   /\ canvas.scale * Fine <= v
                   /\ v < (canvas.scale + 1) * Fine
            /\ canvas.width = tileSize * canvas.scale
            /\ canvas.height = tileSize * canvas.scale

C33_Witness ==
    /\ canvas.created
    /\ tileArgs.outputScale.given
    /\ tileArgs.outputScale.value = 4 * Fine - 1
    /\ canvas.scale = 3
    /\ canvas.width = 3 * tileSize

(***************************************************************************)
(* Claims about scale, marker and anchor of a request, checked under       *)
(* SpecValidate                                                            *)
(***************************************************************************)
\* the characters are an integer numeral: an optional sign and digits only
IsInteger(s) ==
    LET u == IF s # <<>> /\ Head(s) \in {"-", "+"} THEN Tail(s) ELSE s
    IN  u # <<>> /\ LeadingDigits(u) = u

\* the scale parameter is missing, not an integer, or outside 1..4
ScaleUnusable(value) ==
    \/ Blank(value)
    \/ ~IsInteger(Trim(value.chars))
    \/ Below(parseInt(value.chars), 1)
    \/ Above(parseInt(value.chars), 4)

\* C34: no request is rejected for its scale; a request that passes
\* validation with a scale that is missing, not an integer or outside 1..4
\* is given scale 1 for the composition, and its digest is the digest of the
\* same request with scale 1.
C34_UnusableScaleIsOne ==
    /\ (verdict # <<>> /\ verdict # <<"valid">>) => verdict[1] # "scale"
    /\ (verdict = <<"valid">> /\ ScaleUnusable(query.scale)) =>
           /\ rparams[1].scale = 1
           /\ rhash[1] = generateHash(rparams[1].zoom, rparams[1].lat, rparams[1].lon,
                                      rparams[1].marker, rparams[1].anchor)

\* the parameter as given: its characters without the blanks around them,
\* none if it is absent or blank
Given(value) == IF value.defined THEN Trim(value.chars) ELSE <<>>

\* the marker the request resolves to
ResolvedMarker == IF Given(query.marker) # <<>> THEN Given(query.marker) ELSE defaultMarker

\* the default anchors the catalog gives the resolved marker
MarkerAnchors == {m.anchor : m \in {e \in ConfigMarkers : e.name = ResolvedMarker}} \ {<<>>}

\* the anchor the request resolves to by the precedence
ResolvedAnchor ==
    IF Given(query.anchor) # <<>> THEN Given(query.anchor)
    ELSE IF MarkerAnchors # {} THEN CHOOSE a \in MarkerAnchors : TRUE
    ELSE defaultAnchor

\* the request was answered 400 for the parameter and nothing else happened
Refused(parameter) ==
    /\ response[1] # <<>>
    /\ response[1].status = 400
    /\ response[1].error[1] = parameter
    /\ rlog[1] = <<>>
    /\ rtiles[1] = <<>>
    /\ disk = {}

\* C35: for a request whose lat, lon and zoom are accepted, the anchor is
\* the anchor parameter if given, else the default anchor of the resolved
\* marker (the marker parameter if given, else the configured default
\* marker), else the configured default anchor; a marker parameter outside
\* the marker catalog, or a resolved anchor outside the anchor catalog, is
\* answered 400 without composition or cache access, and every other
\* request goes on with the resolved marker and anchor.
C35_AnchorPrecedence ==
    (verdict # <<>> /\ verdict[1] \notin {"latitude", "longitude", "zoom"}) =>
        IF Given(query.marker) # <<>>
           /\ \A m \in ConfigMarkers : m.name # Given(query.marker)
        THEN Refused("marker")
        ELSE IF \A a \in ConfigAnchors : a.name # ResolvedAnchor
        THEN Refused("anchor")
        ELSE /\ verdict = <<"valid">>
             /\ rparams[1].marker = Str(ResolvedMarker)
             /\ rparams[1].anchor = Str(ResolvedAnchor)

C35_Witness ==
    /\ verdict = <<"valid">>
    /\ ~query.marker.defined
    /\ query.anchor = Str(<<" ">>)
    /\ rparams[1].marker = Str(defaultMarker)
    /\ rparams[1].anchor = Str(<<"b">>)
    /\ defaultAnchor # <<"b">>
    /\ response[1] # <<>>
    /\ response[1].status = 200

====
